---- MODULE Spec2Model ----
(***************************************************************************)
(* A model of the core of cabin (formerly poac): the BuildConfig Makefile  *)
(* emitter and its topological sort, the build driver, the semver         *)
(* comparison operators and the version-requirement matcher.              *)
(*                                                                         *)
(* Each subsystem has its own specification (SpecBC, SpecBuild,            *)
(* SpecSemver, SpecReq); the variables of the other subsystems stay at     *)
(* their idle values.                                                      *)
(***************************************************************************)
EXTENDS Integers, Sequences, FiniteSets, TLC

VARIABLES
  \* ---- BuildConfig (src/src/BuildConfig.cc) ----
  variables,    \* HashMap<String, Variable>
  varDeps,      \* HashMap<String, Vec<String>>: reverse dependencies
  targets,      \* HashMap<String, Target>
  targetDeps,   \* HashMap<String, Vec<String>>: reverse dependencies
  phony,        \* Option<Target>
  all,          \* Option<Target>
  varDecl,      \* history: dependsOn of the latest definition of each variable
  redefined,    \* history: a name was defined more than once
  defOrderV,    \* history: the variables in the order they were first defined
  defOrderT,    \* history: the targets in the order they were first defined
  nDefs,        \* number of define/addPhony/setAll calls made so far
  mk,           \* the outcome of emitMakefile
  \* ---- build driver (src/src/Cmd/Build.cc) ----
  pc,           \* position of the driver inside buildImpl / runBuildCommand
  hasBinTarget, \* config.hasBinTarget()
  hasLibTarget, \* config.hasLibTarget()
  targetName,   \* the target runBuildCommand is building: "bin" or "lib"
  exitStatus,   \* buildImpl's local ExitStatus
  cmdLog,       \* history: the commands executed and how each one ended
  finished,     \* the "Finished" line was printed
  buildResult,  \* what buildImpl returned: "Ok" or "Err"
  \* ---- semver comparison (src/srcOld/Util/Semver/Comparison.hpp) ----
  svPc,         \* "pick", "pair" (two versions compared) or "triple"
  svA, svB, svC,\* the versions under comparison
  \* ---- version requirements (src/src/VersionReq.cc) ----
  rqPc,         \* "parse", "parsed", "canon" or "matched"
  req,          \* the parsed VersionReq
  canon,        \* req.canonicalize()
  canon2,       \* canon.canonicalize()
  ver,          \* the version tested against the requirement
  sat,          \* req.satisfiedBy(ver)
  csat,         \* canon.satisfiedBy(ver)
  \* ---- child environment (src/src/Command.cc) ----
  envPc,        \* "build" or "spawned"
  environ,      \* the inherited environment (::environ)
  environment,  \* Command::environment, the explicit env entries
  childEnv,      \* envs, the environment handed to execvpe
  \* ---- draining a child (src/src/Command.cc) ----
  wPc,          \* position of the parent inside Child::waitWithOutput
  piped,        \* which of stdout, stderr are piped to the parent
  pipe,         \* the bytes in each pipe
  closedW,      \* the child has closed its end of the pipe
  exited,       \* the child has exited
  written,      \* history: the bytes the child wrote to each stream
  eof,          \* stdOutEOF, stdErrEOF
  output,       \* stdOutOutput, stdErrOutput
  readfds,       \* the descriptors select() reported ready
  \* ---- the parallelism cap (src/src/Parallelism.cc) ----
  hardware_concurrency,\* std::thread::hardware_concurrency()
  controls,     \* the values of the tbb::global_control objects alive
  lastSet,      \* history: the argument of the latest setParallelism
  got,           \* the latest result of getParallelism
  \* ---- the age of the Makefile (src/src/BuildConfig.cc) ----
  now,          \* the clock
  makefileTime, \* write time of the Makefile, Absent when there is none
  manifestTime, \* write time of the manifest
  srcTimes,     \* write time of each entry under src
  emitted,      \* emitMakefile has run
  upToDate,     \* what isUpToDate gave in the latest emitMakefile
  regenerated,  \* the latest emitMakefile wrote the Makefile
  found,          \* history: the write times the latest emitMakefile found
  \* ---- prerequisites of a compile target (src/src/BuildConfig.cc) ----
  mmPc,         \* position in the source pass of configureBuild
  sourceFile,   \* the source file compiled
  headers,      \* the headers the compiler finds, in its order
  mmOutput,     \* what runMM returns
  objTarget,    \* the target parseMMOutput reads
  objTargetDeps,\* the prerequisites parseMMOutput reads
  compileTarget,\* the Target defined for the object
  ruleText,     \* the line of the rule in the Makefile
  compdbEntry,   \* the entry in compile_commands.json
  \* ---- objects of a test binary (src/src/BuildConfig.cc) ----
  objTargets,   \* config.targets of the build objects: the prerequisites of each
  testSource,   \* the source file whose test binary is defined, None before
  testObjTargetDeps, \* the prerequisites of its test object
  testTargetDeps, \* the prerequisites of its test binary
  \* ---- linker flags (src/src/Builder/Compiler.cc) ----
  ldFlags,      \* the LdFlags merged into
  seenLibs,     \* history: the libraries given to the constructors, in order
  merges,        \* the number of merges made
  \* ---- dependencies of the manifest (src/src/Manifest.cc) ----
  depsParsed,   \* deps, the dependencies read so far
  depEntry,     \* history: the entry read last, None before the first
  depResult,     \* "parsing", or how parseDependencies ended
  \* ---- editions (src/src/Manifest.cc) ----
  edStrA,       \* the first string given to Edition::tryFromString
  edStrB,       \* the second string
  edA,          \* the Result for the first string, None before
  edB,           \* the Result for the second string
  \* ---- the package table (src/src/Manifest.cc) ----
  pkgToml,      \* the [package] table: name, edition, version
  package,      \* the Result of Package::tryFromToml, None before
  nameChecked,   \* the Result of validatePackageName, None before
  \* ---- Manifest::findPath ----
  manifests,    \* directories that hold a cabin.toml
  origCandDir,  \* directory the lookup starts in
  candidateDir, \* directory being examined
  configPath,   \* directory of the manifest returned
  fpPc,          \* position in findPath
  \* ---- Profiles ----
  profToml,     \* the [profile] tables of the manifest
  profiles,     \* result of parseProfiles
  theFlag,         \* the flag under test
  flagChecked,   \* result of validateFlag on it
  \* ---- runMain ----
  runPc,        \* position in runMain
  executed,     \* the binary of the package was executed
  runStatus,    \* what execCmd returned for the binary
  runResult,     \* result of runMain
  \* ---- Child::wait, Child::waitWithOutput: descriptors ----
  fdFn,         \* the member function called
  fdOwned,      \* stdOutFd / stdErrFd is a pipe (not -1)
  fdChunks,     \* reads with data left before the end of each stream
  fdEOF,        \* stdOutEOF / stdErrEOF
  fdReady,      \* the descriptors select() reported
  closeCount,   \* number of close() calls on each descriptor
  fdPc,          \* position in the member function
  \* ---- collectBinDepObjs step by step ----
  csSource,     \* sourceFile of the test
  csList,       \* objTargetDeps of the first call
  stack,        \* the calls of collectBinDepObjs in progress
  csDeps,       \* deps, the objects collected so far
  pushes,       \* every object handed to deps.pushBack, in order
  csPc          \* collecting or done

bcVars == <<variables, varDeps, targets, targetDeps, phony, all, varDecl,
            redefined, defOrderV, defOrderT, nDefs, mk>>

bdVars == <<pc, hasBinTarget, hasLibTarget, targetName, exitStatus, cmdLog,
            finished, buildResult>>

svVars == <<svPc, svA, svB, svC>>

rqVars == <<rqPc, req, canon, canon2, ver, sat, csat>>

enVars == <<envPc, environ, environment, childEnv>>

wtVars == <<wPc, piped, pipe, closedW, exited, written, eof, output,
            readfds>>

paVars == <<hardware_concurrency, controls, lastSet, got>>

udVars == <<now, makefileTime, manifestTime, srcTimes, emitted, upToDate,
            regenerated, found>>

mmVars == <<mmPc, sourceFile, headers, mmOutput, objTarget, objTargetDeps,
            compileTarget, ruleText, compdbEntry>>

cbVars == <<objTargets, testSource, testObjTargetDeps, testTargetDeps>>

ldVars == <<ldFlags, seenLibs, merges>>

dpVars == <<depsParsed, depEntry, depResult>>

edVars == <<edStrA, edStrB, edA, edB>>

pkVars == <<pkgToml, package, nameChecked>>

fpVars == <<manifests, origCandDir, candidateDir, configPath, fpPc>>

prVars == <<profToml, profiles, theFlag, flagChecked>>

rnVars == <<runPc, executed, runStatus, runResult>>

fdVars == <<fdFn, fdOwned, fdChunks, fdEOF, fdReady, closeCount, fdPc>>

csVars == <<csSource, csList, stack, csDeps, pushes, csPc>>

vars == <<bcVars, bdVars, svVars, rqVars, enVars, wtVars, paVars, udVars,
          mmVars, cbVars, ldVars, dpVars, edVars, pkVars, fpVars, prVars,
          rnVars, fdVars, csVars>>

\* For each subsystem, the variables of all the others.
othersBC == <<bdVars, svVars, rqVars, enVars, wtVars, paVars, udVars,
              mmVars, cbVars, ldVars, dpVars, edVars, pkVars, fpVars,
              prVars, rnVars, fdVars, csVars>>
othersBD == <<bcVars, svVars, rqVars, enVars, wtVars, paVars, udVars,
              mmVars, cbVars, ldVars, dpVars, edVars, pkVars, fpVars,
              prVars, rnVars, fdVars, csVars>>
othersSV == <<bcVars, bdVars, rqVars, enVars, wtVars, paVars, udVars,
              mmVars, cbVars, ldVars, dpVars, edVars, pkVars, fpVars,
              prVars, rnVars, fdVars, csVars>>
othersRQ == <<bcVars, bdVars, svVars, enVars, wtVars, paVars, udVars,
              mmVars, cbVars, ldVars, dpVars, edVars, pkVars, fpVars,
              prVars, rnVars, fdVars, csVars>>
othersEN == <<bcVars, bdVars, svVars, rqVars, wtVars, paVars, udVars,
              mmVars, cbVars, ldVars, dpVars, edVars, pkVars, fpVars,
              prVars, rnVars, fdVars, csVars>>
othersWT == <<bcVars, bdVars, svVars, rqVars, enVars, paVars, udVars,
              mmVars, cbVars, ldVars, dpVars, edVars, pkVars, fpVars,
              prVars, rnVars, fdVars, csVars>>
othersPA == <<bcVars, bdVars, svVars, rqVars, enVars, wtVars, udVars,
              mmVars, cbVars, ldVars, dpVars, edVars, pkVars, fpVars,
              prVars, rnVars, fdVars, csVars>>
othersUD == <<bcVars, bdVars, svVars, rqVars, enVars, wtVars, paVars,
              mmVars, cbVars, ldVars, dpVars, edVars, pkVars, fpVars,
              prVars, rnVars, fdVars, csVars>>
othersMM == <<bcVars, bdVars, svVars, rqVars, enVars, wtVars, paVars,
              udVars, cbVars, ldVars, dpVars, edVars, pkVars, fpVars,
              prVars, rnVars, fdVars, csVars>>
othersCB == <<bcVars, bdVars, svVars, rqVars, enVars, wtVars, paVars,
              udVars, mmVars, ldVars, dpVars, edVars, pkVars, fpVars,
              prVars, rnVars, fdVars, csVars>>
othersLD == <<bcVars, bdVars, svVars, rqVars, enVars, wtVars, paVars,
              udVars, mmVars, cbVars, dpVars, edVars, pkVars, fpVars,
              prVars, rnVars, fdVars, csVars>>
othersDP == <<bcVars, bdVars, svVars, rqVars, enVars, wtVars, paVars,
              udVars, mmVars, cbVars, ldVars, edVars, pkVars, fpVars,
              prVars, rnVars, fdVars, csVars>>
othersED == <<bcVars, bdVars, svVars, rqVars, enVars, wtVars, paVars,
              udVars, mmVars, cbVars, ldVars, dpVars, pkVars, fpVars,
              prVars, rnVars, fdVars, csVars>>
othersPK == <<bcVars, bdVars, svVars, rqVars, enVars, wtVars, paVars,
              udVars, mmVars, cbVars, ldVars, dpVars, edVars, fpVars,
              prVars, rnVars, fdVars, csVars>>
othersFP == <<bcVars, bdVars, svVars, rqVars, enVars, wtVars, paVars,
              udVars, mmVars, cbVars, ldVars, dpVars, edVars, pkVars,
              prVars, rnVars, fdVars, csVars>>
othersPR == <<bcVars, bdVars, svVars, rqVars, enVars, wtVars, paVars,
              udVars, mmVars, cbVars, ldVars, dpVars, edVars, pkVars,
              fpVars, rnVars, fdVars, csVars>>
othersRN == <<bcVars, bdVars, svVars, rqVars, enVars, wtVars, paVars,
              udVars, mmVars, cbVars, ldVars, dpVars, edVars, pkVars,
              fpVars, prVars, fdVars, csVars>>
othersFD == <<bcVars, bdVars, svVars, rqVars, enVars, wtVars, paVars,
              udVars, mmVars, cbVars, ldVars, dpVars, edVars, pkVars,
              fpVars, prVars, rnVars, csVars>>
othersCS == <<bcVars, bdVars, svVars, rqVars, enVars, wtVars, paVars,
              udVars, mmVars, cbVars, ldVars, dpVars, edVars, pkVars,
              fpVars, prVars, rnVars, fdVars>>

----------------------------------------------------------------------------
(* Generic helpers                                                         *)

None == [none |-> TRUE]


SeqToSet(s) == {s[i] : i \in DOMAIN s}

\* All orderings (sequences without repetition) of the finite set S.
Perms(S) ==
  {s \in [1..Cardinality(S) -> S] : \A i, j \in DOMAIN s : i # j => s[i] # s[j]}

\* All sequences without repetition over S of length at most n.
OrderedSets(S, n) ==
  UNION {{s \in [1..k -> S] : \A i, j \in 1..k : i # j => s[i] # s[j]} : k \in 0..n}

\* Position of x in s (0 when absent).
IndexOf(s, x) ==
  IF \E i \in DOMAIN s : s[i] = x
  THEN CHOOSE i \in DOMAIN s : s[i] = x /\ \A j \in DOMAIN s : s[j] = x => i <= j
  ELSE 0

Reverse(s) == [i \in 1..Len(s) |-> s[Len(s) + 1 - i]]

\* m with key k set to v (the key is inserted when missing).
MapPut(m, k, v) == [x \in DOMAIN m \cup {k} |-> IF x = k THEN v ELSE m[x]]

----------------------------------------------------------------------------
(* Bounds                                                                  *)

\* Names of variables and targets.
Names == {"a", "b", "c"}
\* Longest dependsOn list passed to a define call.
MaxDeps == 2
\* Number of define/addPhony/setAll calls before the Makefile is emitted.
MaxDefs == 3

DepLists == OrderedSets(Names, MaxDeps)

----------------------------------------------------------------------------
(* Algos.hpp: topoSort (Kahn's algorithm over the reverse-dependency map)  *)

\* Number of times n occurs in the sequence s.
Count(s, n) == Cardinality({i \in DOMAIN s : s[i] = n})

RECURSIVE SumCounts(_, _, _)
SumCounts(adjList, keys, n) ==
  IF keys = {} THEN 0
  ELSE LET k == CHOOSE x \in keys : TRUE
       IN Count(adjList[k], n) + SumCounts(adjList, keys \ {k}, n)

\* InDegree without the test `if (!list.contains(edge.first)) continue`.
InDegreeAllEdges(list, adjList) ==
  LET srcs == DOMAIN adjList
      nbrs == UNION {SeqToSet(adjList[k]) : k \in srcs}
  IN [n \in list \cup nbrs |-> SumCounts(adjList, srcs, n)]

\* The first two loops of topoSort: every key of list gets 0, then every
\* edge whose source is in list adds one to each of its neighbours
\* (inDegree[neighbor]++ inserts a neighbour that is not in list).
InDegree(list, adjList) ==
  LET srcs == DOMAIN adjList \cap list
      nbrs == UNION {SeqToSet(adjList[k]) : k \in srcs}
  IN [n \in list \cup nbrs |-> SumCounts(adjList, srcs, n)]

ZeroInDegreeReversed(inDegree, iter) ==
  Reverse(SelectSeq(iter, LAMBDA n : inDegree[n] = 0))

\* The queue seeded by iterating inDegree: iter is the order in which the
\* unordered_map yields its keys.
ZeroInDegree(inDegree, iter) ==
  SelectSeq(iter, LAMBDA n : inDegree[n] = 0)

\* for (neighbor : adjList.at(node)) { inDegree[neighbor]--; if 0, push }
RECURSIVE Relax(_, _, _)
Relax(inDegree, queue, nbrs) ==
  IF nbrs = <<>> THEN [inDegree |-> inDegree, queue |-> queue]
  ELSE LET nb == Head(nbrs)
           d  == inDegree[nb] - 1
       IN Relax([inDegree EXCEPT ![nb] = d],
                IF d = 0 THEN Append(queue, nb) ELSE queue,
                Tail(nbrs))

\* while (!zeroInDegree.empty()) { ... }
RECURSIVE KahnLoop(_, _, _, _)
KahnLoop(adjList, inDegree, queue, res) ==
  IF queue = <<>> THEN res
  ELSE LET node == Head(queue)
       IN IF node \notin DOMAIN adjList
          THEN KahnLoop(adjList, inDegree, Tail(queue), Append(res, node))
          ELSE LET r == Relax(inDegree, Tail(queue), adjList[node])
               IN KahnLoop(adjList, r.inDegree, r.queue, Append(res, node))

topoSortNoCycleCheck(list, adjList, iter) ==
  LET inDegree == InDegree(list, adjList)
      res == KahnLoop(adjList, inDegree, ZeroInDegree(inDegree, iter), <<>>)
  IN [ok |-> TRUE, res |-> res]

\* topoSort(list, adjList): ok = FALSE is PoacError("too complex build graph").
topoSort(list, adjList, iter) ==
  LET inDegree == InDegree(list, adjList)
      res == KahnLoop(adjList, inDegree, ZeroInDegree(inDegree, iter), <<>>)
  IN IF Len(res) # Cardinality(list)
     THEN [ok |-> FALSE, res |-> <<>>]
     ELSE [ok |-> TRUE, res |-> res]

----------------------------------------------------------------------------
(* BuildConfig.cc: the BuildConfig emitter                                 *)

VarTypes == {"Simple", "Cond"}

\* varDeps[name].push_back(dep): the forward edge, not the reverse one.
AddReverseDepsForward(deps, name, dependsOn) ==
  IF dependsOn = <<>> THEN deps
  ELSE MapPut(deps, name,
              (IF name \in DOMAIN deps THEN deps[name] ELSE <<>>) \o dependsOn)

\* for (dep : dependsOn) { deps[dep].push_back(name); }
RECURSIVE AddReverseDeps(_, _, _)
AddReverseDeps(deps, name, dependsOn) ==
  IF dependsOn = <<>> THEN deps
  ELSE LET dep == Head(dependsOn)
           old == IF dep \in DOMAIN deps THEN deps[dep] ELSE <<>>
       IN AddReverseDeps(MapPut(deps, dep, Append(old, name)), name,
                         Tail(dependsOn))

\* BuildConfig::defineVariable
defineVariable(name, value, dependsOn) ==
  /\ variables' = MapPut(variables, name, value)
  /\ varDeps' = AddReverseDeps(varDeps, name, dependsOn)
  /\ varDecl' = MapPut(varDecl, name, dependsOn)
  /\ redefined' = (redefined \/ name \in DOMAIN variables)
  /\ defOrderV' = IF name \in DOMAIN variables THEN defOrderV
                  ELSE Append(defOrderV, name)

\* BuildConfig::defineTarget
defineTarget(name, commands, dependsOn) ==
  /\ targets' = MapPut(targets, name,
                       [commands |-> commands, dependsOn |-> dependsOn])
  /\ targetDeps' = AddReverseDeps(targetDeps, name, dependsOn)
  /\ redefined' = (redefined \/ name \in DOMAIN targets)
  /\ defOrderT' = IF name \in DOMAIN targets THEN defOrderT
                  ELSE Append(defOrderT, name)

\* emitTarget: one rule of the Makefile (the line wrapping at 80 columns is
\* layout only and is not part of the record).
emitTarget(target, dependsOn, commands) ==
  [kind |-> "rule", name |-> target, deps |-> dependsOn, commands |-> commands]

\* The loop over sortedVars of emitMakefile.
EmitVariables(sortedVars) ==
  [i \in 1..Len(sortedVars) |->
     [kind |-> "var", name |-> sortedVars[i],
      type |-> variables[sortedVars[i]].type,
      value |-> variables[sortedVars[i]].value]]

EmitTargetsForward(sortedTargets) ==
  [i \in 1..Len(sortedTargets) |->
     emitTarget(sortedTargets[i], targets[sortedTargets[i]].dependsOn,
                targets[sortedTargets[i]].commands)]

\* The loop from sortedTargets.rbegin() to rend() of emitMakefile.
EmitTargets(sortedTargets) ==
  LET r == Reverse(sortedTargets)
  IN [i \in 1..Len(r) |->
        emitTarget(r[i], targets[r[i]].dependsOn, targets[r[i]].commands)]

EmitSpecial ==
  (IF phony # None THEN <<emitTarget(".PHONY", phony.dependsOn, <<>>)>> ELSE <<>>)
  \o (IF all # None THEN <<emitTarget("all", all.dependsOn, <<>>)>> ELSE <<>>)

\* BuildConfig::emitMakefile.  iterV and iterT are the orders in which the
\* inDegree maps of the two sorts yield their keys.  A throwing sort leaves
\* in the stream what was written before it.
emitMakefile(iterV, iterT) ==
  LET sv == topoSort(DOMAIN variables, varDeps, iterV)
      st == topoSort(DOMAIN targets, targetDeps, iterT)
      outV == EmitVariables(sv.res)
      sep == IF sv.res # <<>> /\ DOMAIN targets # {}
             THEN <<[kind |-> "blank"]>> ELSE <<>>
  IN IF ~sv.ok
     THEN [status |-> "error", failed |-> "variables", out |-> <<>>,
           sortedVars |-> <<>>, sortedTargets |-> <<>>,
           iterV |-> iterV, iterT |-> <<>>]
     ELSE IF ~st.ok
     THEN [status |-> "error", failed |-> "targets",
           out |-> outV \o sep \o EmitSpecial,
           sortedVars |-> sv.res, sortedTargets |-> <<>>,
           iterV |-> iterV, iterT |-> iterT]
     ELSE [status |-> "ok", failed |-> "none",
           out |-> outV \o sep \o EmitSpecial \o EmitTargets(st.res),
           sortedVars |-> sv.res, sortedTargets |-> st.res,
           iterV |-> iterV, iterT |-> iterT]

NotEmitted == [status |-> "none"]

InitBC ==
  /\ variables = <<>>
  /\ varDeps = <<>>
  /\ targets = <<>>
  /\ targetDeps = <<>>
  /\ phony = None
  /\ all = None
  /\ varDecl = <<>>
  /\ redefined = FALSE
  /\ defOrderV = <<>>
  /\ defOrderT = <<>>
  /\ nDefs = 0
  /\ mk = NotEmitted
  \* the other subsystems are idle
  /\ pc = "idle" /\ hasBinTarget = FALSE /\ hasLibTarget = FALSE
  /\ targetName = "none" /\ exitStatus = None /\ cmdLog = <<>>
  /\ finished = FALSE /\ buildResult = "none"
  /\ svPc = "idle" /\ svA = None /\ svB = None /\ svC = None
  /\ rqPc = "idle" /\ req = None /\ canon = None /\ canon2 = None
  /\ ver = None /\ sat = FALSE /\ csat = FALSE
  /\ envPc = "idle" /\ environ = <<>> /\ environment = <<>> /\ childEnv = <<>>
  /\ wPc = "idle" /\ piped = <<>> /\ pipe = <<>> /\ closedW = <<>>
  /\ exited = FALSE /\ written = <<>> /\ eof = <<>> /\ output = <<>>
  /\ readfds = {}
  /\ hardware_concurrency = 0 /\ controls = <<>> /\ lastSet = 0 /\ got = 0
  /\ now = 0 /\ makefileTime = 0 /\ manifestTime = 0 /\ srcTimes = <<>>
  /\ emitted = FALSE /\ upToDate = FALSE /\ regenerated = FALSE /\ found = <<>>
  /\ mmPc = "idle" /\ sourceFile = <<>> /\ headers = <<>> /\ mmOutput = <<>>
  /\ objTarget = <<>> /\ objTargetDeps = <<>> /\ compileTarget = <<>>
  /\ ruleText = <<>> /\ compdbEntry = None
  /\ objTargets = <<>> /\ testSource = None /\ testObjTargetDeps = <<>>
  /\ testTargetDeps = <<>>
  /\ ldFlags = None /\ seenLibs = <<>> /\ merges = 0
  /\ depsParsed = <<>> /\ depEntry = None /\ depResult = "idle"
  /\ edStrA = "" /\ edStrB = "" /\ edA = None /\ edB = None
  /\ pkgToml = None /\ package = None /\ nameChecked = None
  /\ manifests = {} /\ origCandDir = <<>> /\ candidateDir = <<>>
  /\ configPath = <<>> /\ fpPc = "idle"
  /\ profToml = None /\ profiles = None /\ theFlag = <<>> /\ flagChecked = None
  /\ runPc = "idle" /\ executed = FALSE /\ runStatus = None /\ runResult = "none"
  /\ fdFn = "none" /\ fdOwned = <<>> /\ fdChunks = <<>> /\ fdEOF = <<>>
  /\ fdReady = {} /\ closeCount = <<>> /\ fdPc = "idle"
  /\ csSource = None /\ csList = <<>> /\ stack = <<>> /\ csDeps = <<>>
  /\ pushes = <<>> /\ csPc = "idle"

CanDefine == mk = NotEmitted /\ nDefs < MaxDefs

\* The payloads of the definitions: the value of variable name, and the one
\* command ("echo name") of target name.
Value(name) == <<"value", name>>
Commands(name) == << <<"echo", name>> >>

DefineSimpleVariable ==
  /\ CanDefine
  /\ \E name \in Names, dependsOn \in DepLists :
       defineVariable(name, [value |-> Value(name), type |-> "Simple"], dependsOn)
  /\ nDefs' = nDefs + 1
  /\ UNCHANGED <<targets, targetDeps, defOrderT, phony, all, mk>>
  /\ UNCHANGED othersBC

DefineCondVariable ==
  /\ CanDefine
  /\ \E name \in Names, dependsOn \in DepLists :
       defineVariable(name, [value |-> Value(name), type |-> "Cond"], dependsOn)
  /\ nDefs' = nDefs + 1
  /\ UNCHANGED <<targets, targetDeps, defOrderT, phony, all, mk>>
  /\ UNCHANGED othersBC

DefineTarget ==
  /\ CanDefine
  /\ \E name \in Names, dependsOn \in DepLists :
       defineTarget(name, Commands(name), dependsOn)
  /\ nDefs' = nDefs + 1
  /\ UNCHANGED <<variables, varDeps, varDecl, defOrderV, phony, all, mk>>
  /\ UNCHANGED othersBC

\* BuildConfig::addPhony
AddPhony ==
  /\ CanDefine
  /\ \E target \in Names :
       LET cur == IF phony = None THEN <<>> ELSE phony.dependsOn
       IN phony' = [commands |-> <<>>,
                    dependsOn |-> IF target \in SeqToSet(cur) THEN cur
                                  ELSE Append(cur, target)]
  /\ nDefs' = nDefs + 1
  /\ UNCHANGED <<variables, varDeps, varDecl, targets, targetDeps, all,
                 redefined, defOrderV, defOrderT, mk>>
  /\ UNCHANGED othersBC

\* BuildConfig::setAll
SetAll ==
  /\ CanDefine
  /\ \E dependsOn \in DepLists :
       all' = [commands |-> <<>>, dependsOn |-> dependsOn]
  /\ nDefs' = nDefs + 1
  /\ UNCHANGED <<variables, varDeps, varDecl, targets, targetDeps, phony,
                 redefined, defOrderV, defOrderT, mk>>
  /\ UNCHANGED othersBC

EmitMakefile ==
  /\ mk = NotEmitted
  /\ \E iterV \in Perms(DOMAIN InDegree(DOMAIN variables, varDeps)),
        iterT \in Perms(DOMAIN InDegree(DOMAIN targets, targetDeps)) :
       mk' = emitMakefile(iterV, iterT)
  /\ UNCHANGED <<variables, varDeps, targets, targetDeps, phony, all, varDecl,
                 redefined, defOrderV, defOrderT, nDefs>>
  /\ UNCHANGED othersBC

NextBC ==
  \/ DefineSimpleVariable
  \/ DefineCondVariable
  \/ DefineTarget
  \/ AddPhony
  \/ SetAll
  \/ EmitMakefile

SpecBC == InitBC /\ [][NextBC]_vars

----------------------------------------------------------------------------
(* Properties of the BuildConfig emitter                                   *)

\* <<n, d>>: by its latest definition, n depends on the defined name d.
VarEdges ==
  {e \in (DOMAIN variables) \X (DOMAIN variables) : e[2] \in SeqToSet(varDecl[e[1]])}
TargetEdges ==
  {e \in (DOMAIN targets) \X (DOMAIN targets) :
     e[2] \in SeqToSet(targets[e[1]].dependsOn)}

RECURSIVE ReachFrom(_, _, _)
ReachFrom(edges, frontier, seen) ==
  LET next == {e[2] : e \in {f \in edges : f[1] \in frontier}} \ seen
  IN IF next = {} THEN seen ELSE ReachFrom(edges, next, seen \cup next)

\* The names x depends on, directly or through other names.
DependsOnTransitively(edges, x) == ReachFrom(edges, {x}, {})

Cyclic(edges) == \E e \in edges : e[1] \in DependsOnTransitively(edges, e[1])

Emitted == mk.status # "none"
\* The variable section was written (the target sort may still have thrown).
VarsEmitted == mk.status = "ok" \/ (mk.status = "error" /\ mk.failed = "targets")

\* Position in the output of the definition of variable n / the rule of
\* target n (0 when absent).
VarPos(n) ==
  IF \E i \in DOMAIN mk.out : mk.out[i].kind = "var" /\ mk.out[i].name = n
  THEN CHOOSE i \in DOMAIN mk.out : mk.out[i].kind = "var" /\ mk.out[i].name = n
  ELSE 0
RulePos(n) ==
  IF \E i \in DOMAIN mk.out : mk.out[i].kind = "rule" /\ mk.out[i].name = n
  THEN CHOOSE i \in DOMAIN mk.out : mk.out[i].kind = "rule" /\ mk.out[i].name = n
  ELSE 0

\* C1: emitMakefile fails with "too complex build graph" whenever the
\* defined variables, or the defined targets, contain a dependency cycle of
\* any length, a name depending on itself included.
C1_CycleIsError ==
  (Emitted /\ (Cyclic(VarEdges) \/ Cyclic(TargetEdges))) => mk.status = "error"

\* A cycle of length three among the variables was rejected.
C1_Witness ==
  /\ mk.status = "error"
  /\ DOMAIN variables = Names
  /\ \A n \in Names : Len(varDecl[n]) = 1 /\ varDecl[n][1] # n
  /\ Cyclic(VarEdges)

\* C2: for every acyclic set of variable definitions (each variable defined
\* once), emitMakefile writes the variables, and every variable comes after
\* each defined variable it depends on.
C2_VarsTopological ==
  /\ VarsEmitted =>
       \A e \in VarEdges : 0 < VarPos(e[2]) /\ VarPos(e[2]) < VarPos(e[1])
  /\ (Emitted /\ ~redefined /\ ~Cyclic(VarEdges)) => VarsEmitted

\* c depends on b, b on a, defined as c, b, a: emitted as a, b, c.
C2_Witness ==
  /\ mk.status = "ok"
  /\ defOrderV = <<"c", "b", "a">>
  /\ {<<"c", "b">>, <<"b", "a">>} \subseteq VarEdges
  /\ mk.sortedVars = <<"a", "b", "c">>

\* C3: for every acyclic set of target definitions (each target defined
\* once), emitMakefile writes the rules in reverse topological order: the
\* rule of a target comes before the rule of each defined target it depends
\* on.
C3_TargetsReverseTopological ==
  /\ mk.status = "ok" =>
       \A e \in TargetEdges : 0 < RulePos(e[1]) /\ RulePos(e[1]) < RulePos(e[2])
  /\ (VarsEmitted /\ ~redefined /\ ~Cyclic(TargetEdges)) => mk.status = "ok"

\* a, then b depending on a, then c depending on b: the rules are c, b, a.
C3_Witness ==
  /\ mk.status = "ok"
  /\ defOrderT = <<"a", "b", "c">>
  /\ {<<"c", "b">>, <<"b", "a">>} \subseteq TargetEdges
  /\ RulePos("c") < RulePos("b") /\ RulePos("b") < RulePos("a")

Before(s, x, y) == IndexOf(s, x) < IndexOf(s, y)

Unordered(edges, x, y) ==
  /\ x # y
  /\ x \notin DependsOnTransitively(edges, y)
  /\ y \notin DependsOnTransitively(edges, x)

\* Every name defined earlier is yielded earlier by the hash map.
InsertionOrdered(iter, defOrder) ==
  \A x, y \in SeqToSet(iter) : Before(defOrder, x, y) => Before(iter, x, y)

\* C5 as stated: of two names that no dependency path orders, the one
\* defined first comes first in the topological sort.  It is stated for the
\* runs that favour it most, those whose hash maps happen to yield their
\* keys in insertion order.
C5_TiesByInsertionOrder ==
  (/\ mk.status = "ok"
   /\ InsertionOrdered(mk.iterV, defOrderV)
   /\ InsertionOrdered(mk.iterT, defOrderT)) =>
    /\ \A x, y \in DOMAIN variables :
         (Unordered(VarEdges, x, y) /\ Before(defOrderV, x, y))
           => Before(mk.sortedVars, x, y)
    /\ \A x, y \in DOMAIN targets :
         (Unordered(TargetEdges, x, y) /\ Before(defOrderT, x, y))
           => Before(mk.sortedTargets, x, y)

\* C5 as amended: the sorts are topological, and the names with no incoming
\* edge come out in the order in which the in-degree hash map yields them.
C5_TiesByIterationOrder ==
  mk.status = "ok" =>
    /\ \A e \in VarEdges : Before(mk.sortedVars, e[2], e[1])
    /\ \A e \in TargetEdges : Before(mk.sortedTargets, e[2], e[1])
    /\ \A x, y \in DOMAIN variables :
         LET d == InDegree(DOMAIN variables, varDeps)
         IN (d[x] = 0 /\ d[y] = 0 /\ Before(mk.iterV, x, y))
              => Before(mk.sortedVars, x, y)
    /\ \A x, y \in DOMAIN targets :
         LET d == InDegree(DOMAIN targets, targetDeps)
         IN (d[x] = 0 /\ d[y] = 0 /\ Before(mk.iterT, x, y))
              => Before(mk.sortedTargets, x, y)

\* Two independent variables were sorted against their insertion order.
C5_Witness ==
  /\ mk.status = "ok"
  /\ \E x, y \in DOMAIN variables :
       /\ Unordered(VarEdges, x, y)
       /\ Before(defOrderV, x, y)
       /\ Before(mk.iterV, y, x)
       /\ Before(mk.sortedVars, y, x)

----------------------------------------------------------------------------
(* The build driver: src/src/Cmd/Build.cc                                  *)

\* The largest exit code a child is modelled to exit with.
MaxExitCode == 2

\* ExitStatus (src/src/Command.cc): a normal exit carrying its code, or a
\* termination by a signal.
Exited(code) == [kind |-> "exited", code |-> code]
KilledBySignal == [kind |-> "signaled", code |-> 0]
ExitStatuses == {Exited(c) : c \in 0..MaxExitCode} \cup {KilledBySignal}

\* ExitStatus::success
success(st) == st.kind = "exited" /\ st.code = 0

\* What execCmd returns: Err (the child could not be spawned or waited
\* for) or Ok with the child's ExitStatus.
SpawnError == [kind |-> "error", code |-> 0]
ExecResults == ExitStatuses \cup {SpawnError}

\* The exit code of the tool for a command's Result.
ExitCodeOf(res) == IF res = "Ok" THEN 0 ELSE 1

InitBuild ==
  /\ pc = "start"
  /\ hasBinTarget = FALSE
  /\ hasLibTarget = FALSE
  /\ targetName = "none"
  /\ exitStatus = None
  /\ cmdLog = <<>>
  /\ finished = FALSE
  /\ buildResult = "none"
  \* the other subsystems are idle
  /\ variables = <<>> /\ varDeps = <<>> /\ targets = <<>> /\ targetDeps = <<>>
  /\ phony = None /\ all = None /\ varDecl = <<>> /\ redefined = FALSE
  /\ defOrderV = <<>> /\ defOrderT = <<>> /\ nDefs = 0
  /\ mk = [status |-> "none"]
  /\ svPc = "idle" /\ svA = None /\ svB = None /\ svC = None
  /\ rqPc = "idle" /\ req = None /\ canon = None /\ canon2 = None
  /\ ver = None /\ sat = FALSE /\ csat = FALSE
  /\ envPc = "idle" /\ environ = <<>> /\ environment = <<>> /\ childEnv = <<>>
  /\ wPc = "idle" /\ piped = <<>> /\ pipe = <<>> /\ closedW = <<>>
  /\ exited = FALSE /\ written = <<>> /\ eof = <<>> /\ output = <<>>
  /\ readfds = {}
  /\ hardware_concurrency = 0 /\ controls = <<>> /\ lastSet = 0 /\ got = 0
  /\ now = 0 /\ makefileTime = 0 /\ manifestTime = 0 /\ srcTimes = <<>>
  /\ emitted = FALSE /\ upToDate = FALSE /\ regenerated = FALSE /\ found = <<>>
  /\ mmPc = "idle" /\ sourceFile = <<>> /\ headers = <<>> /\ mmOutput = <<>>
  /\ objTarget = <<>> /\ objTargetDeps = <<>> /\ compileTarget = <<>>
  /\ ruleText = <<>> /\ compdbEntry = None
  /\ objTargets = <<>> /\ testSource = None /\ testObjTargetDeps = <<>>
  /\ testTargetDeps = <<>>
  /\ ldFlags = None /\ seenLibs = <<>> /\ merges = 0
  /\ depsParsed = <<>> /\ depEntry = None /\ depResult = "idle"
  /\ edStrA = "" /\ edStrB = "" /\ edA = None /\ edB = None
  /\ pkgToml = None /\ package = None /\ nameChecked = None
  /\ manifests = {} /\ origCandDir = <<>> /\ candidateDir = <<>>
  /\ configPath = <<>> /\ fpPc = "idle"
  /\ profToml = None /\ profiles = None /\ theFlag = <<>> /\ flagChecked = None
  /\ runPc = "idle" /\ executed = FALSE /\ runStatus = None /\ runResult = "none"
  /\ fdFn = "none" /\ fdOwned = <<>> /\ fdChunks = <<>> /\ fdEOF = <<>>
  /\ fdReady = {} /\ closeCount = <<>> /\ fdPc = "idle"
  /\ csSource = None /\ csList = <<>> /\ stack = <<>> /\ csDeps = <<>>
  /\ pushes = <<>> /\ csPc = "idle"

\* buildImpl, lines 61-65: Try(emitMakefile(...)) leaves with the error, or
\* yields the config; then `ExitStatus exitStatus;` is default-constructed.
\* The default constructor is declared in Command.hpp; the value it gives is
\* left open: any ExitStatus.
BuildEmitMakefile ==
  /\ pc = "start"
  /\ \/ /\ buildResult' = "Err"
        /\ pc' = "done"
        /\ UNCHANGED <<hasBinTarget, hasLibTarget, exitStatus>>
     \/ /\ \E bin \in BOOLEAN, lib \in BOOLEAN, st \in ExitStatuses :
             /\ hasBinTarget' = bin
             /\ hasLibTarget' = lib
             /\ exitStatus' = st
        /\ pc' = "bin"
        /\ UNCHANGED buildResult
  /\ UNCHANGED <<targetName, cmdLog, finished>>
  /\ UNCHANGED othersBD

\* buildImpl, lines 66-69: if (config.hasBinTarget()) runBuildCommand(name)
BuildBinTarget ==
  /\ pc = "bin"
  /\ IF hasBinTarget
        THEN pc' = "question" /\ targetName' = "bin"
        ELSE pc' = "lib" /\ UNCHANGED targetName
  /\ UNCHANGED <<hasBinTarget, hasLibTarget, exitStatus, cmdLog, finished,
                 buildResult>>
  /\ UNCHANGED othersBD

\* buildImpl, lines 71-74: if (config.hasLibTarget() && exitStatus.success())
BuildLibTarget ==
  /\ pc = "lib"
  /\ IF hasLibTarget /\ success(exitStatus)
        THEN pc' = "question" /\ targetName' = "lib"
        ELSE pc' = "finish" /\ UNCHANGED targetName
  /\ UNCHANGED <<hasBinTarget, hasLibTarget, exitStatus, cmdLog, finished,
                 buildResult>>
  /\ UNCHANGED othersBD

\* Where buildImpl continues once runBuildCommand has returned Ok.
AfterBuildCommand == IF targetName = "bin" THEN "lib" ELSE "finish"

\* runBuildCommand, lines 46-47 and 54: Try(execCmd(make --question)); an
\* up-to-date target returns that status at once.
ExecCheckUpToDate ==
  /\ pc = "question"
  /\ \E r \in ExecResults :
       /\ cmdLog' = Append(cmdLog, [target |-> targetName,
                                    cmd |-> "question", status |-> r])
       /\ IF r = SpawnError
             THEN /\ buildResult' = "Err"
                  /\ pc' = "done"
                  /\ UNCHANGED exitStatus
             ELSE IF success(r)
                     THEN /\ exitStatus' = r
                          /\ pc' = AfterBuildCommand
                          /\ UNCHANGED buildResult
                     ELSE /\ pc' = "make"
                          /\ UNCHANGED <<exitStatus, buildResult>>
  /\ UNCHANGED <<hasBinTarget, hasLibTarget, targetName, finished>>
  /\ UNCHANGED othersBD

\* runBuildCommand, lines 48-54: the target is not up to date;
\* Try(execCmd(make)), and its status is what runBuildCommand returns.
ExecMake ==
  /\ pc = "make"
  /\ \E r \in ExecResults :
       /\ cmdLog' = Append(cmdLog, [target |-> targetName,
                                    cmd |-> "make", status |-> r])
       /\ IF r = SpawnError
             THEN /\ buildResult' = "Err"
                  /\ pc' = "done"
                  /\ UNCHANGED exitStatus
             ELSE /\ exitStatus' = r
                  /\ pc' = AfterBuildCommand
                  /\ UNCHANGED buildResult
  /\ UNCHANGED <<hasBinTarget, hasLibTarget, targetName, finished>>
  /\ UNCHANGED othersBD

\* buildImpl, lines 79-84: "Finished" is printed if the last status is a
\* success; then `return Ok();`.
BuildFinish ==
  /\ pc = "finish"
  /\ finished' = success(exitStatus)
  /\ buildResult' = "Ok"
  /\ pc' = "done"
  /\ UNCHANGED <<hasBinTarget, hasLibTarget, targetName, exitStatus, cmdLog>>
  /\ UNCHANGED othersBD

NextBuild ==
  \/ BuildEmitMakefile
  \/ BuildBinTarget
  \/ BuildLibTarget
  \/ ExecCheckUpToDate
  \/ ExecMake
  \/ BuildFinish

SpecBuild == InitBuild /\ [][NextBuild]_vars

----------------------------------------------------------------------------
(* Properties of the build driver                                          *)

\* Some make invocation that was to build a target ended otherwise than
\* with exit code 0.
MakeFailed ==
  \E i \in DOMAIN cmdLog :
    /\ cmdLog[i].cmd = "make"
    /\ cmdLog[i].status # SpawnError
    /\ ~success(cmdLog[i].status)

\* C6: if make exits with a nonzero status, the build command returns an
\* error (the tool exits with code 1) and never reports success.
C6_MakeFailureIsError ==
  (pc = "done" /\ MakeFailed) =>
     /\ buildResult = "Err"
     /\ ExitCodeOf(buildResult) = 1

\* The part of C6 the driver does keep: after a failed make no "Finished"
\* line is printed and no further target is built.
C6_FailureStopsBuild ==
  (pc = "done" /\ MakeFailed) =>
     /\ ~finished
     /\ ~success(cmdLog[Len(cmdLog)].status)

----------------------------------------------------------------------------
(* Semver comparison: src/srcOld/Util/Semver/Comparison.hpp                *)
(* (the same text is in src/lib/util/semver/comparison.cc)                 *)

\* Bounds: the largest major/minor/patch number, the largest numeric
\* prerelease identifier, the largest rank of an alphanumeric identifier
\* (rank 0 is "alpha", rank 1 is "beta", ...: ranks follow string order),
\* and the largest number of prerelease identifiers.
MaxNum == 1
MaxIdNum == 1
MaxAlphaRank == 0
MaxPreLen == 2

\* A prerelease identifier is numeric or alphanumeric; two identifiers are
\* equal when they have the same kind and the same value.
Identifiers ==
  [numeric : {TRUE}, val : 0..MaxIdNum] \cup
  [numeric : {FALSE}, val : 0..MaxAlphaRank]

is_numeric(id) == id.numeric
is_alpha_numeric(id) == ~id.numeric

SeqsUpTo(S, n) == UNION {[1..k -> S] : k \in 0..n}

Pres == SeqsUpTo(Identifiers, MaxPreLen)

Versions == [major : 0..MaxNum, minor : 0..MaxNum, patch : 0..MaxNum,
             pre : Pres]

\* The loop of detail::gt_pre (lines 25-47); i counts from 1 here.  When
\* both identifiers are of one kind and the left one is not the greater,
\* no branch returns and the loop goes on to the next position.
RECURSIVE gt_pre_loop(_, _, _)
gt_pre_loop(l, r, i) ==
  IF i > Len(l) /\ i > Len(r) THEN FALSE
  ELSE IF i > Len(l) THEN FALSE
  ELSE IF i > Len(r) THEN TRUE
  ELSE IF l[i] = r[i] THEN gt_pre_loop(l, r, i + 1)
  ELSE IF ~is_numeric(l[i]) /\ is_numeric(r[i]) THEN TRUE
  ELSE IF is_alpha_numeric(l[i]) /\ is_alpha_numeric(r[i])
          THEN IF l[i].val > r[i].val THEN TRUE
               ELSE gt_pre_loop(l, r, i + 1)
  ELSE IF is_numeric(l[i]) /\ is_numeric(r[i])
          THEN IF l[i].val > r[i].val THEN TRUE
               ELSE gt_pre_loop(l, r, i + 1)
  ELSE FALSE

\* detail::gt_pre
gt_pre(lhs, rhs) ==
  IF lhs.pre = <<>> /\ rhs.pre # <<>> THEN TRUE
  ELSE gt_pre_loop(lhs.pre, rhs.pre, 1)

\* The loop of detail::eq_pre (lines 58-70)
RECURSIVE eq_pre_loop(_, _, _)
eq_pre_loop(l, r, i) ==
  IF i > Len(l) /\ i > Len(r) THEN TRUE
  ELSE IF i > Len(r) THEN FALSE
  ELSE IF i > Len(l) THEN FALSE
  ELSE IF l[i] = r[i] THEN eq_pre_loop(l, r, i + 1)
  ELSE FALSE

\* detail::eq_pre
eq_pre(lhs, rhs) ==
  IF lhs.pre = <<>> /\ rhs.pre = <<>> THEN TRUE
  ELSE eq_pre_loop(lhs.pre, rhs.pre, 1)

\* operator==, operator!=, operator>, operator<, operator>=, operator<=
OpEq(lhs, rhs) ==
  /\ lhs.major = rhs.major /\ lhs.minor = rhs.minor
  /\ lhs.patch = rhs.patch /\ eq_pre(lhs, rhs)

OpNe(lhs, rhs) == ~OpEq(lhs, rhs)

OpGt(lhs, rhs) ==
  IF lhs.major # rhs.major THEN lhs.major > rhs.major
  ELSE IF lhs.minor # rhs.minor THEN lhs.minor > rhs.minor
  ELSE IF lhs.patch # rhs.patch THEN lhs.patch > rhs.patch
  ELSE gt_pre(lhs, rhs)

OpLt(lhs, rhs) == OpGt(rhs, lhs)

OpGe(lhs, rhs) == OpGt(lhs, rhs) \/ OpEq(lhs, rhs)

OpLe(lhs, rhs) == OpLt(lhs, rhs) \/ OpEq(lhs, rhs)

InitSemver ==
  /\ svPc = "pick" /\ svA = None /\ svB = None /\ svC = None
  \* the other subsystems are idle
  /\ variables = <<>> /\ varDeps = <<>> /\ targets = <<>> /\ targetDeps = <<>>
  /\ phony = None /\ all = None /\ varDecl = <<>> /\ redefined = FALSE
  /\ defOrderV = <<>> /\ defOrderT = <<>> /\ nDefs = 0
  /\ mk = [status |-> "none"]
  /\ pc = "idle" /\ hasBinTarget = FALSE /\ hasLibTarget = FALSE
  /\ targetName = "none" /\ exitStatus = None /\ cmdLog = <<>>
  /\ finished = FALSE /\ buildResult = "none"
  /\ rqPc = "idle" /\ req = None /\ canon = None /\ canon2 = None
  /\ ver = None /\ sat = FALSE /\ csat = FALSE
  /\ envPc = "idle" /\ environ = <<>> /\ environment = <<>> /\ childEnv = <<>>
  /\ wPc = "idle" /\ piped = <<>> /\ pipe = <<>> /\ closedW = <<>>
  /\ exited = FALSE /\ written = <<>> /\ eof = <<>> /\ output = <<>>
  /\ readfds = {}
  /\ hardware_concurrency = 0 /\ controls = <<>> /\ lastSet = 0 /\ got = 0
  /\ now = 0 /\ makefileTime = 0 /\ manifestTime = 0 /\ srcTimes = <<>>
  /\ emitted = FALSE /\ upToDate = FALSE /\ regenerated = FALSE /\ found = <<>>
  /\ mmPc = "idle" /\ sourceFile = <<>> /\ headers = <<>> /\ mmOutput = <<>>
  /\ objTarget = <<>> /\ objTargetDeps = <<>> /\ compileTarget = <<>>
  /\ ruleText = <<>> /\ compdbEntry = None
  /\ objTargets = <<>> /\ testSource = None /\ testObjTargetDeps = <<>>
  /\ testTargetDeps = <<>>
  /\ ldFlags = None /\ seenLibs = <<>> /\ merges = 0
  /\ depsParsed = <<>> /\ depEntry = None /\ depResult = "idle"
  /\ edStrA = "" /\ edStrB = "" /\ edA = None /\ edB = None
  /\ pkgToml = None /\ package = None /\ nameChecked = None
  /\ manifests = {} /\ origCandDir = <<>> /\ candidateDir = <<>>
  /\ configPath = <<>> /\ fpPc = "idle"
  /\ profToml = None /\ profiles = None /\ theFlag = <<>> /\ flagChecked = None
  /\ runPc = "idle" /\ executed = FALSE /\ runStatus = None /\ runResult = "none"
  /\ fdFn = "none" /\ fdOwned = <<>> /\ fdChunks = <<>> /\ fdEOF = <<>>
  /\ fdReady = {} /\ closeCount = <<>> /\ fdPc = "idle"
  /\ csSource = None /\ csList = <<>> /\ stack = <<>> /\ csDeps = <<>>
  /\ pushes = <<>> /\ csPc = "idle"

\* Two versions are handed to the comparison operators.
ComparePair ==
  /\ svPc = "pick"
  /\ \E lhs \in Versions, rhs \in Versions : svA' = lhs /\ svB' = rhs
  /\ svPc' = "pair"
  /\ UNCHANGED svC
  /\ UNCHANGED othersSV

\* A third version is compared with the two.
CompareThird ==
  /\ svPc = "pair"
  /\ \E v \in Versions : svC' = v
  /\ svPc' = "triple"
  /\ UNCHANGED <<svA, svB>>
  /\ UNCHANGED othersSV

NextSemver ==
  \/ ComparePair
  \/ CompareThird

SpecSemver == InitSemver /\ [][NextSemver]_vars

----------------------------------------------------------------------------
(* Properties of the semver comparison                                     *)

ExactlyOne(p, q, r) ==
  (p \/ q \/ r) /\ ~(p /\ q) /\ ~(p /\ r) /\ ~(q /\ r)

\* C7: the comparison operators form a total order: exactly one of a < b,
\* a == b, a > b holds for any two versions, the derived operators agree
\* with it, and > is transitive.
C7_TotalOrder ==
  /\ svPc \in {"pair", "triple"} =>
       /\ ExactlyOne(OpLt(svA, svB), OpEq(svA, svB), OpGt(svA, svB))
       /\ OpGe(svA, svB) = ~OpLt(svA, svB)
       /\ OpLe(svA, svB) = ~OpGt(svA, svB)
       /\ OpNe(svA, svB) = ~OpEq(svA, svB)
  /\ svPc = "triple" =>
       ((OpGt(svA, svB) /\ OpGt(svB, svC)) => OpGt(svA, svC))

\* Without prereleases the operators do form a total order.
C7_TotalOrderWithoutPre ==
  /\ (svPc \in {"pair", "triple"} /\ svA.pre = <<>> /\ svB.pre = <<>>) =>
       ExactlyOne(OpLt(svA, svB), OpEq(svA, svB), OpGt(svA, svB))
  /\ (svPc = "triple" /\ svA.pre = <<>> /\ svB.pre = <<>>
        /\ svC.pre = <<>>) =>
       ((OpGt(svA, svB) /\ OpGt(svB, svC)) => OpGt(svA, svC))

----------------------------------------------------------------------------
(* Version requirements: src/src/VersionReq.cc, src/src/VersionReq.hpp     *)

\* std::optional<uint64_t> without a value.
Absent == 0 - 1
has_value(x) == x # Absent
value_or(x, d) == IF has_value(x) THEN x ELSE d

\* uint64_t, scaled down: the largest value a number can hold.  The numbers
\* a requirement names in SpecReq stay below it; in SpecCanon they reach it.
UintMax == MaxNum + 1

\* The increments of canonicalize: unsigned arithmetic, which wraps from
\* the largest value to 0.
Inc(n) == (n + 1) % (UintMax + 1)

\* The prereleases a requirement may name and the ones a version may have:
\* for the requirement's prerelease `1` there is a version with a smaller
\* one (`0`), with the same one and with a greater one (`alpha`).
MaxReqPreLen == 1
VerPres == SeqsUpTo(Identifiers, MaxReqPreLen)
ReqPres == {<<>>, <<[numeric |-> TRUE, val |-> MaxIdNum]>>}

\* Prerelease ordering (operator<, operator== ... of Prerelease): an empty
\* prerelease is the greatest; otherwise identifier by identifier, numeric
\* below alphanumeric, a proper prefix below the longer sequence.
IdLt(x, y) ==
  IF x.numeric = y.numeric THEN x.val < y.val ELSE x.numeric

RECURSIVE PreLexLt(_, _, _)
PreLexLt(a, b, i) ==
  IF i > Len(a) THEN i <= Len(b)
  ELSE IF i > Len(b) THEN FALSE
  ELSE IF a[i] = b[i] THEN PreLexLt(a, b, i + 1)
  ELSE IdLt(a[i], b[i])

PreLt(a, b) ==
  IF a = <<>> THEN FALSE
  ELSE IF b = <<>> THEN TRUE
  ELSE PreLexLt(a, b, 1)

PreGt(a, b) == PreLt(b, a)
PreGe(a, b) == ~PreLt(a, b)

\* OptVersion as the comparator lexer builds it (lines 104-136): the minor
\* is optional, the patch only follows a minor, the prerelease only
\* follows a patch.
OptVersionsUpTo(n) ==
  [major : 0..n, minor : {Absent}, patch : {Absent}, pre : {<<>>}] \cup
  [major : 0..n, minor : 0..n, patch : {Absent}, pre : {<<>>}] \cup
  [major : 0..n, minor : 0..n, patch : 0..n, pre : ReqPres]

OptVersions == OptVersionsUpTo(MaxNum)

\* Comparator::from
Comparator(op, v) ==
  [op |-> op, major |-> v.major, minor |-> v.minor, patch |-> v.patch,
   pre |-> v.pre]

AllOps == {"NoOp", "Exact", "Gt", "Gte", "Lt", "Lte"}
ChainOps == {"Gt", "Gte", "Lt", "Lte"}

\* VersionReqParser::parse: one comparator or bare version, or two
\* comparators joined by &&, neither of them NoOp or Exact.
ReqsOver(V) ==
  {[left |-> Comparator(op, v), right |-> None] :
      op \in AllOps, v \in V} \cup
  {[left |-> Comparator(ops[1], vs[1]), right |-> Comparator(ops[2], vs[2])] :
      ops \in ChainOps \X ChainOps, vs \in V \X V}

ParsedReqs == ReqsOver(OptVersions)

\* The requirements whose numbers range over the whole word.
WideReqs == ReqsOver(OptVersionsUpTo(UintMax))

\* The versions tested: their numbers reach one past the requirement's, up
\* to the bounds canonicalize computes.
ReqVersions ==
  [major : 0..UintMax, minor : 0..UintMax, patch : 0..UintMax, pre : VerPres]

matchesExact(cmp, v) ==
  IF v.major # cmp.major THEN FALSE
  ELSE IF has_value(cmp.minor) /\ v.minor # cmp.minor THEN FALSE
  ELSE IF has_value(cmp.patch) /\ v.patch # cmp.patch THEN FALSE
  ELSE v.pre = cmp.pre

matchesGreater(cmp, v) ==
  IF v.major # cmp.major THEN v.major > cmp.major
  ELSE IF ~has_value(cmp.minor) THEN FALSE
  ELSE IF v.minor # cmp.minor THEN v.minor > cmp.minor
  ELSE IF ~has_value(cmp.patch) THEN FALSE
  ELSE IF v.patch # cmp.patch THEN v.patch > cmp.patch
  ELSE PreGt(v.pre, cmp.pre)

matchesLess(cmp, v) ==
  IF v.major # cmp.major THEN v.major < cmp.major
  ELSE IF ~has_value(cmp.minor) THEN FALSE
  ELSE IF v.minor # cmp.minor THEN v.minor < cmp.minor
  ELSE IF ~has_value(cmp.patch) THEN FALSE
  ELSE IF v.patch # cmp.patch THEN v.patch < cmp.patch
  ELSE PreLt(v.pre, cmp.pre)

matchesNoOp(cmp, v) ==
  IF v.major # cmp.major THEN FALSE
  ELSE IF ~has_value(cmp.minor) THEN TRUE
  ELSE IF ~has_value(cmp.patch)
          THEN IF cmp.major > 0 THEN v.minor >= cmp.minor
               ELSE v.minor = cmp.minor
  ELSE IF cmp.major > 0 /\ v.minor # cmp.minor THEN v.minor > cmp.minor
  ELSE IF cmp.major > 0 /\ v.patch # cmp.patch THEN v.patch > cmp.patch
  ELSE IF cmp.major > 0 THEN PreGe(v.pre, cmp.pre)
  ELSE IF cmp.minor > 0 /\ v.minor # cmp.minor THEN FALSE
  ELSE IF cmp.minor > 0 /\ v.patch # cmp.patch THEN v.patch > cmp.patch
  ELSE IF cmp.minor > 0 THEN PreGe(v.pre, cmp.pre)
  ELSE IF v.minor # cmp.minor \/ v.patch # cmp.patch THEN FALSE
  ELSE PreGe(v.pre, cmp.pre)

\* Comparator::satisfiedBy
ComparatorSatisfiedBy(cmp, v) ==
  CASE cmp.op = "NoOp" -> matchesNoOp(cmp, v)
    [] cmp.op = "Exact" -> matchesExact(cmp, v)
    [] cmp.op = "Gt" -> matchesGreater(cmp, v)
    [] cmp.op = "Gte" -> matchesExact(cmp, v) \/ matchesGreater(cmp, v)
    [] cmp.op = "Lt" -> matchesLess(cmp, v)
    [] cmp.op = "Lte" -> matchesExact(cmp, v) \/ matchesLess(cmp, v)

\* Comparator::canonicalize with the operator of > and <= left as it is
\* while the number is incremented.
ComparatorCanonicalizeKeepOp(cmp) ==
  IF cmp.op \in {"Gt", "Lte"} /\ has_value(cmp.patch)
     THEN [cmp EXCEPT !.patch = Inc(cmp.patch)]
     ELSE cmp

\* Comparator::canonicalize
ComparatorCanonicalize(cmp) ==
  IF cmp.op \in {"NoOp", "Exact"} THEN cmp
  ELSE IF cmp.op \in {"Gte", "Lt"}
          THEN [cmp EXCEPT !.minor = value_or(cmp.minor, 0),
                           !.patch = value_or(cmp.patch, 0)]
  ELSE LET op == IF cmp.op = "Gt" THEN "Gte" ELSE "Lt"
       IN IF has_value(cmp.patch)
             THEN [cmp EXCEPT !.op = op, !.patch = Inc(cmp.patch)]
          ELSE IF has_value(cmp.minor)
             THEN [cmp EXCEPT !.op = op, !.patch = 0,
                              !.minor = Inc(cmp.minor)]
          ELSE [cmp EXCEPT !.op = op, !.patch = 0, !.minor = 0,
                           !.major = Inc(cmp.major)]

\* preIsCompatible without the test for a nonempty prerelease.
preIsCompatibleAnyPre(cmp, v) ==
  /\ cmp.major = v.major
  /\ has_value(cmp.minor) /\ cmp.minor = v.minor
  /\ has_value(cmp.patch) /\ cmp.patch = v.patch

\* preIsCompatible
preIsCompatible(cmp, v) ==
  /\ cmp.major = v.major
  /\ has_value(cmp.minor) /\ cmp.minor = v.minor
  /\ has_value(cmp.patch) /\ cmp.patch = v.patch
  /\ cmp.pre # <<>>

\* VersionReq::satisfiedBy
satisfiedBy(r, v) ==
  IF ~ComparatorSatisfiedBy(r.left, v) THEN FALSE
  ELSE IF r.right # None /\ ~ComparatorSatisfiedBy(r.right, v) THEN FALSE
  ELSE IF v.pre = <<>> THEN TRUE
  ELSE IF preIsCompatible(r.left, v) THEN TRUE
  ELSE IF r.right # None /\ preIsCompatible(r.right, v) THEN TRUE
  ELSE FALSE

\* The two-comparator result `>= lo && < hi` that canonicalizeNoOp and
\* canonicalizeExact build; both bounds get the prerelease of the input.
Range(loMajor, loMinor, loPatch, hiMajor, hiMinor, pre) ==
  [left |-> [op |-> "Gte", major |-> loMajor, minor |-> loMinor,
             patch |-> loPatch, pre |-> pre],
   right |-> [op |-> "Lt", major |-> hiMajor, minor |-> hiMinor,
              patch |-> 0, pre |-> pre]]

canonicalizeNoOp(target) ==
  LET left == target.left
  IN IF ~has_value(left.minor) /\ ~has_value(left.patch)
        THEN Range(left.major, 0, 0, Inc(left.major), 0, left.pre)
     ELSE IF left.major > 0
        THEN IF has_value(left.patch)
                THEN Range(left.major, left.minor, left.patch,
                           Inc(left.major), 0, left.pre)
                ELSE Range(left.major, left.minor, 0,
                           Inc(left.major), 0, left.pre)
     ELSE IF left.minor > 0
        THEN Range(0, left.minor, value_or(left.patch, 0),
                   0, Inc(left.minor), left.pre)
     ELSE IF has_value(left.patch)
        THEN [left |-> [op |-> "Exact", major |-> 0, minor |-> 0,
                        patch |-> left.patch, pre |-> left.pre],
              right |-> None]
     ELSE Range(0, 0, 0, 0, 1, left.pre)

\* canonicalizeExact that returns every exact requirement as it is.
canonicalizeExactIdentity(r) == r

canonicalizeExact(r) ==
  LET left == r.left
  IN IF has_value(left.minor) /\ has_value(left.patch) THEN r
     ELSE IF has_value(left.minor)
        THEN Range(left.major, left.minor, 0,
                   left.major, Inc(left.minor), left.pre)
     ELSE Range(left.major, 0, 0, Inc(left.major), 0, left.pre)

\* VersionReq::canonicalize
canonicalize(r) ==
  IF r.left.op = "NoOp" THEN canonicalizeNoOp(r)
  ELSE IF r.left.op = "Exact" THEN canonicalizeExact(r)
  ELSE [left |-> ComparatorCanonicalize(r.left),
        right |-> IF r.right # None THEN ComparatorCanonicalize(r.right)
                  ELSE None]

\* optVersionString: the numbers rendered, and the prerelease, which is
\* only rendered after a patch.
optVersionString(cmp) ==
  [nums |-> <<cmp.major>> \o
            (IF has_value(cmp.minor)
                THEN <<cmp.minor>> \o
                     (IF has_value(cmp.patch) THEN <<cmp.patch>> ELSE <<>>)
                ELSE <<>>),
   pre |-> IF has_value(cmp.minor) /\ has_value(cmp.patch) THEN cmp.pre
           ELSE <<>>]

\* ::toString(Comparator::Op)
OpString(op) ==
  CASE op = "Exact" -> "="
    [] op = "Gt" -> ">"
    [] op = "Gte" -> ">="
    [] op = "Lt" -> "<"
    [] op = "Lte" -> "<="

\* Comparator::toPkgConfigString: the operator, if there is one, a space,
\* and the version.
ComparatorToPkgConfigString(cmp) ==
  [op |-> IF cmp.op # "NoOp" THEN OpString(cmp.op) ELSE "",
   version |-> optVersionString(cmp)]

\* VersionReq::toPkgConfigString: "name left" or "name left, name right" of
\* the canonical form; the result is kept as the list of its parts.
toPkgConfigString(r) ==
  LET c == canonicalize(r)
  IN <<ComparatorToPkgConfigString(c.left)>> \o
     (IF c.right # None THEN <<ComparatorToPkgConfigString(c.right)>>
      ELSE <<>>)

InitReq ==
  /\ rqPc = "parse" /\ req = None /\ canon = None /\ canon2 = None
  /\ ver = None /\ sat = FALSE /\ csat = FALSE
  \* the other subsystems are idle
  /\ variables = <<>> /\ varDeps = <<>> /\ targets = <<>> /\ targetDeps = <<>>
  /\ phony = None /\ all = None /\ varDecl = <<>> /\ redefined = FALSE
  /\ defOrderV = <<>> /\ defOrderT = <<>> /\ nDefs = 0
  /\ mk = [status |-> "none"]
  /\ pc = "idle" /\ hasBinTarget = FALSE /\ hasLibTarget = FALSE
  /\ targetName = "none" /\ exitStatus = None /\ cmdLog = <<>>
  /\ finished = FALSE /\ buildResult = "none"
  /\ svPc = "idle" /\ svA = None /\ svB = None /\ svC = None
  /\ envPc = "idle" /\ environ = <<>> /\ environment = <<>> /\ childEnv = <<>>
  /\ wPc = "idle" /\ piped = <<>> /\ pipe = <<>> /\ closedW = <<>>
  /\ exited = FALSE /\ written = <<>> /\ eof = <<>> /\ output = <<>>
  /\ readfds = {}
  /\ hardware_concurrency = 0 /\ controls = <<>> /\ lastSet = 0 /\ got = 0
  /\ now = 0 /\ makefileTime = 0 /\ manifestTime = 0 /\ srcTimes = <<>>
  /\ emitted = FALSE /\ upToDate = FALSE /\ regenerated = FALSE /\ found = <<>>
  /\ mmPc = "idle" /\ sourceFile = <<>> /\ headers = <<>> /\ mmOutput = <<>>
  /\ objTarget = <<>> /\ objTargetDeps = <<>> /\ compileTarget = <<>>
  /\ ruleText = <<>> /\ compdbEntry = None
  /\ objTargets = <<>> /\ testSource = None /\ testObjTargetDeps = <<>>
  /\ testTargetDeps = <<>>
  /\ ldFlags = None /\ seenLibs = <<>> /\ merges = 0
  /\ depsParsed = <<>> /\ depEntry = None /\ depResult = "idle"
  /\ edStrA = "" /\ edStrB = "" /\ edA = None /\ edB = None
  /\ pkgToml = None /\ package = None /\ nameChecked = None
  /\ manifests = {} /\ origCandDir = <<>> /\ candidateDir = <<>>
  /\ configPath = <<>> /\ fpPc = "idle"
  /\ profToml = None /\ profiles = None /\ theFlag = <<>> /\ flagChecked = None
  /\ runPc = "idle" /\ executed = FALSE /\ runStatus = None /\ runResult = "none"
  /\ fdFn = "none" /\ fdOwned = <<>> /\ fdChunks = <<>> /\ fdEOF = <<>>
  /\ fdReady = {} /\ closeCount = <<>> /\ fdPc = "idle"
  /\ csSource = None /\ csList = <<>> /\ stack = <<>> /\ csDeps = <<>>
  /\ pushes = <<>> /\ csPc = "idle"

\* VersionReq::parse of a well-formed requirement
ParseReq ==
  /\ rqPc = "parse"
  /\ \E r \in ParsedReqs : req' = r
  /\ rqPc' = "parsed"
  /\ UNCHANGED <<canon, canon2, ver, sat, csat>>
  /\ UNCHANGED othersRQ

\* VersionReq::parse of a well-formed requirement whose numbers may be the
\* largest a uint64_t holds
ParseWideReq ==
  /\ rqPc = "parse"
  /\ \E r \in WideReqs : req' = r
  /\ rqPc' = "parsed"
  /\ UNCHANGED <<canon, canon2, ver, sat, csat>>
  /\ UNCHANGED othersRQ

\* req.canonicalize()
Canonicalize ==
  /\ rqPc = "parsed"
  /\ canon' = canonicalize(req)
  /\ rqPc' = "canon"
  /\ UNCHANGED <<req, canon2, ver, sat, csat>>
  /\ UNCHANGED othersRQ

\* req.canonicalize().canonicalize()
CanonicalizeAgain ==
  /\ rqPc = "canon"
  /\ canon2' = canonicalize(canon)
  /\ rqPc' = "canon2"
  /\ UNCHANGED <<req, canon, ver, sat, csat>>
  /\ UNCHANGED othersRQ

\* req.satisfiedBy(v) and req.canonicalize().satisfiedBy(v) for a version v
SatisfiedBy ==
  /\ rqPc = "canon2"
  /\ \E v \in ReqVersions :
       /\ ver' = v
       /\ sat' = satisfiedBy(req, v)
       /\ csat' = satisfiedBy(canon, v)
  /\ rqPc' = "matched"
  /\ UNCHANGED <<req, canon, canon2>>
  /\ UNCHANGED othersRQ

NextReq ==
  \/ ParseReq
  \/ Canonicalize
  \/ CanonicalizeAgain
  \/ SatisfiedBy

SpecReq == InitReq /\ [][NextReq]_vars

\* Canonicalization alone, over the requirements with numbers up to UintMax.
NextCanon ==
  \/ ParseWideReq
  \/ Canonicalize
  \/ CanonicalizeAgain

SpecCanon == InitReq /\ [][NextCanon]_vars

----------------------------------------------------------------------------
(* Properties of the version requirements                                  *)

ComparatorsOf(r) == {r.left} \cup (IF r.right # None THEN {r.right} ELSE {})

HasPre(r) == \E cmp \in ComparatorsOf(r) : cmp.pre # <<>>

\* C8: the canonical form of a requirement is satisfied by exactly the
\* versions that satisfy the requirement.
C8_CanonicalizeEquivalent ==
  rqPc = "matched" => (csat = sat)

\* For requirements that name no prerelease the two do agree.
C8_EquivalentWithoutPre ==
  (rqPc = "matched" /\ ~HasPre(req)) => (csat = sat)

\* C9: canonicalization is idempotent: canonicalizing the canonical form
\* gives the canonical form again.
C9_CanonicalizeIdempotent ==
  rqPc \in {"canon2", "matched"} => (canon2 = canon)

\* A requirement that canonicalization rewrote, canonicalized twice.
C9_Witness ==
  /\ rqPc = "canon2"
  /\ req.left.op = "Gt" /\ req.right # None /\ req.right.op = "Lte"
  /\ canon # req
  /\ canon2 = canon

\* cmp names exactly the version's (major, minor, patch) and a prerelease.
NamesTripleWithPre(cmp, v) ==
  /\ cmp.major = v.major /\ cmp.minor = v.minor /\ cmp.patch = v.patch
  /\ cmp.pre # <<>>

\* C10: a version with a prerelease satisfies a requirement only if some
\* comparator of the requirement names the same (major, minor, patch) as
\* the version and has a prerelease itself.
C10_PreNeedsExplicitTriple ==
  (rqPc = "matched" /\ ver.pre # <<>> /\ sat) =>
     \E cmp \in ComparatorsOf(req) : NamesTripleWithPre(cmp, ver)

\* A prerelease version that satisfies a requirement whose other
\* comparator names no prerelease.
C10_Witness ==
  /\ rqPc = "matched" /\ ver.pre # <<>> /\ sat
  /\ req.right # None /\ req.right.pre = <<>>
  /\ ver.pre # req.left.pre

\* C11: the canonical form of a parsed requirement is made only of >=, <
\* and =, with = only as a single comparator, every comparator of it has
\* minor and patch present, and toPkgConfigString renders three numbers
\* for every comparator.
C11_CanonicalShape ==
  rqPc \in {"canon", "canon2", "matched"} =>
     /\ \A cmp \in ComparatorsOf(canon) :
          /\ cmp.op \in {"Gte", "Lt", "Exact"}
          /\ has_value(cmp.minor) /\ has_value(cmp.patch)
     /\ canon.left.op = "Exact" => canon.right = None
     /\ canon.right # None => canon.right.op # "Exact"
     /\ \A i \in DOMAIN toPkgConfigString(req) :
          /\ Len(toPkgConfigString(req)[i].version.nums) = 3
          /\ toPkgConfigString(req)[i].op \in {">=", "<", "="}

\* An exact requirement without a patch, canonicalized into a range.
C11_Witness ==
  /\ rqPc = "canon"
  /\ req.left.op = "Exact" /\ ~has_value(req.left.patch)
  /\ has_value(req.left.minor)
  /\ Len(toPkgConfigString(req)) = 2

\* The number triple the increment with carry gives: the last present
\* component plus one, an absent component 0, and a component that wraps
\* reset to 0 with the next higher one incremented.
CarriedIncrement(cmp) ==
  IF has_value(cmp.patch)
     THEN IF cmp.patch < UintMax
             THEN <<cmp.major, cmp.minor, cmp.patch + 1>>
          ELSE IF cmp.minor < UintMax
             THEN <<cmp.major, cmp.minor + 1, 0>>
          ELSE <<cmp.major + 1, 0, 0>>
  ELSE IF has_value(cmp.minor)
     THEN IF cmp.minor < UintMax
             THEN <<cmp.major, cmp.minor + 1, 0>>
          ELSE <<cmp.major + 1, 0, 0>>
  ELSE <<cmp.major + 1, 0, 0>>

\* The increment of cmp wraps in its last present component.
Wraps(cmp) ==
  IF has_value(cmp.patch) THEN cmp.patch = UintMax
  ELSE IF has_value(cmp.minor) THEN cmp.minor = UintMax
  ELSE cmp.major = UintMax

\* The increment of cmp has a representable result.
Representable(cmp) == CarriedIncrement(cmp)[1] <= UintMax

Triple(cmp) == <<cmp.major, cmp.minor, cmp.patch>>

\* C12: canonicalizing >V gives >= and canonicalizing <=V gives <, of V
\* with its last present component incremented and the increment carried
\* into minor and then major when the component wraps.
C12_IncrementCarries ==
  (rqPc \in {"canon", "canon2"} /\ req.right = None
     /\ req.left.op \in {"Gt", "Lte"} /\ Representable(req.left)) =>
     /\ canon.left.op = (IF req.left.op = "Gt" THEN "Gte" ELSE "Lt")
     /\ Triple(canon.left) = CarriedIncrement(req.left)

\* What the code does keep: without a wrap the last present component is
\* incremented and the absent ones are 0.
C12_IncrementWithoutWrap ==
  (rqPc \in {"canon", "canon2"} /\ req.right = None
     /\ req.left.op \in {"Gt", "Lte"} /\ ~Wraps(req.left)) =>
     /\ canon.left.op = (IF req.left.op = "Gt" THEN "Gte" ELSE "Lt")
     /\ Triple(canon.left) = CarriedIncrement(req.left)

----------------------------------------------------------------------------
(* The environment of a spawned child: src/src/Command.cc, Command::spawn  *)

\* Bounds: the entries of the inherited environment and the explicit env
\* entries of a Command.
MaxInherited == 2
MaxExplicit == 2

\* Strings are sequences of characters.  The variable names are chosen so
\* that one name ("P") is a proper prefix of another ("PA").
EnvNames == {<<"P">>, <<"P", "A">>, <<"Q">>}
EnvValues == {<<"x">>, <<"y">>}

\* An entry of environ or of Command::environment: "NAME=value".
EnvEntry(name, value) == name \o <<"=">> \o value
EnvEntries == {EnvEntry(n, v) : n \in EnvNames, v \in EnvValues}

\* std::ranges::find(envCStr, '=') and the string_view up to it
NameOf(entry) ==
  LET eq == CHOOSE i \in 1..Len(entry) :
              entry[i] = "=" /\ \A j \in 1..(i - 1) : entry[j] # "="
  IN SubSeq(entry, 1, eq - 1)

\* std::string::starts_with
starts_with(str, prefix) ==
  Len(prefix) <= Len(str) /\ SubSeq(str, 1, Len(prefix)) = prefix

\* The inherited environments: each name at most once.
InheritedEnvs ==
  {e \in SeqsUpTo(EnvEntries, MaxInherited) :
     \A i, j \in DOMAIN e : i # j => NameOf(e[i]) # NameOf(e[j])}

\* The lambda notOverriden of Command::spawn (lines 283-292)
notOverriden(envCStr) ==
  \A i \in DOMAIN environment :
    ~starts_with(environment[i], NameOf(envCStr))

\* envs as Command::spawn fills it (lines 294-303): the explicit entries,
\* then the inherited entries that pass the filter.
SpawnEnvs == environment \o SelectSeq(environ, notOverriden)

InitEnv ==
  /\ envPc = "build"
  /\ environ \in InheritedEnvs
  /\ environment = <<>>
  /\ childEnv = <<>>
  \* the other subsystems are idle
  /\ variables = <<>> /\ varDeps = <<>> /\ targets = <<>> /\ targetDeps = <<>>
  /\ phony = None /\ all = None /\ varDecl = <<>> /\ redefined = FALSE
  /\ defOrderV = <<>> /\ defOrderT = <<>> /\ nDefs = 0
  /\ mk = [status |-> "none"]
  /\ pc = "idle" /\ hasBinTarget = FALSE /\ hasLibTarget = FALSE
  /\ targetName = "none" /\ exitStatus = None /\ cmdLog = <<>>
  /\ finished = FALSE /\ buildResult = "none"
  /\ svPc = "idle" /\ svA = None /\ svB = None /\ svC = None
  /\ rqPc = "idle" /\ req = None /\ canon = None /\ canon2 = None
  /\ ver = None /\ sat = FALSE /\ csat = FALSE
  /\ wPc = "idle" /\ piped = <<>> /\ pipe = <<>> /\ closedW = <<>>
  /\ exited = FALSE /\ written = <<>> /\ eof = <<>> /\ output = <<>>
  /\ readfds = {}
  /\ hardware_concurrency = 0 /\ controls = <<>> /\ lastSet = 0 /\ got = 0
  /\ now = 0 /\ makefileTime = 0 /\ manifestTime = 0 /\ srcTimes = <<>>
  /\ emitted = FALSE /\ upToDate = FALSE /\ regenerated = FALSE /\ found = <<>>
  /\ mmPc = "idle" /\ sourceFile = <<>> /\ headers = <<>> /\ mmOutput = <<>>
  /\ objTarget = <<>> /\ objTargetDeps = <<>> /\ compileTarget = <<>>
  /\ ruleText = <<>> /\ compdbEntry = None
  /\ objTargets = <<>> /\ testSource = None /\ testObjTargetDeps = <<>>
  /\ testTargetDeps = <<>>
  /\ ldFlags = None /\ seenLibs = <<>> /\ merges = 0
  /\ depsParsed = <<>> /\ depEntry = None /\ depResult = "idle"
  /\ edStrA = "" /\ edStrB = "" /\ edA = None /\ edB = None
  /\ pkgToml = None /\ package = None /\ nameChecked = None
  /\ manifests = {} /\ origCandDir = <<>> /\ candidateDir = <<>>
  /\ configPath = <<>> /\ fpPc = "idle"
  /\ profToml = None /\ profiles = None /\ theFlag = <<>> /\ flagChecked = None
  /\ runPc = "idle" /\ executed = FALSE /\ runStatus = None /\ runResult = "none"
  /\ fdFn = "none" /\ fdOwned = <<>> /\ fdChunks = <<>> /\ fdEOF = <<>>
  /\ fdReady = {} /\ closeCount = <<>> /\ fdPc = "idle"
  /\ csSource = None /\ csList = <<>> /\ stack = <<>> /\ csDeps = <<>>
  /\ pushes = <<>> /\ csPc = "idle"

\* An explicit env entry is added to the Command.
AddEnv ==
  /\ envPc = "build"
  /\ Len(environment) < MaxExplicit
  /\ \E e \in EnvEntries : environment' = Append(environment, e)
  /\ UNCHANGED <<envPc, environ, childEnv>>
  /\ UNCHANGED othersEN

\* Command::spawn, the child's side up to execvpe
Spawn ==
  /\ envPc = "build"
  /\ childEnv' = SpawnEnvs
  /\ envPc' = "spawned"
  /\ UNCHANGED <<environ, environment>>
  /\ UNCHANGED othersEN

NextEnv ==
  \/ AddEnv
  \/ Spawn

SpecEnv == InitEnv /\ [][NextEnv]_vars

----------------------------------------------------------------------------
(* Properties of the child's environment                                   *)

ExplicitNames == {NameOf(environment[i]) : i \in DOMAIN environment}

NotExplicitlySet(entry) == NameOf(entry) \notin ExplicitNames

\* C13: the child's environment is the inherited one without the variables
\* whose name an explicit entry sets, followed by the explicit entries in
\* the order they were added.
C13_ChildEnv ==
  envPc = "spawned" =>
     childEnv = SelectSeq(environ, NotExplicitlySet) \o environment

\* The same without regard to the order of the entries: the child gets
\* the explicit entries and exactly the inherited entries whose name no
\* explicit entry sets.
C13_ChildEnvEntries ==
  envPc = "spawned" =>
     SeqToSet(childEnv) =
       SeqToSet(environment) \cup
       {environ[i] : i \in {j \in DOMAIN environ : NotExplicitlySet(environ[j])}}

\* What the code keeps: the explicit entries are all handed over, in the
\* order they were added, and no inherited entry is handed over whose name
\* an explicit entry sets.
C13_ExplicitKeptOverriddenDropped ==
  envPc = "spawned" =>
     /\ SubSeq(childEnv, 1, Len(environment)) = environment
     /\ \A i \in (Len(environment) + 1)..Len(childEnv) :
          /\ NotExplicitlySet(childEnv[i])
          /\ childEnv[i] \in SeqToSet(environ)

----------------------------------------------------------------------------
(* Draining a child's output: src/src/Command.cc, Child::waitWithOutput    *)

\* Bounds: the bytes the child writes in all, the bytes a pipe holds before
\* a write blocks, and the bytes one read() returns at most (BUFFER_SIZE,
\* scaled down).
MaxBytes == 3
PipeCap == 2
MaxRead == 2

Streams == {"out", "err"}

Min(a, b) == IF a < b THEN a ELSE b

\* select(): the watched descriptors on which a read() would not block:
\* there is data, or the write end is closed (end of file).
Ready ==
  {st \in Streams : ~eof[st] /\ (pipe[st] # <<>> \/ closedW[st])}

\* `stdOutEOF = true` / `stdErrEOF = true` with both flags set at once.
MarkEofBoth(flags, st) == [t \in Streams |-> TRUE]

\* `stdOutEOF = true` (line 148) / `stdErrEOF = true` (line 168)
MarkEof(flags, st) == [flags EXCEPT ![st] = TRUE]

\* Command::output pipes both streams; a Child spawned otherwise has
\* descriptor -1 for a stream that is not piped, which waitWithOutput
\* takes as already at end of file (lines 112-113).
InitWait ==
  /\ wPc = "select"
  /\ piped \in [Streams -> BOOLEAN]
  /\ pipe = [st \in Streams |-> <<>>]
  /\ closedW = [st \in Streams |-> FALSE]
  /\ exited = FALSE
  /\ written = [st \in Streams |-> <<>>]
  /\ eof = [st \in Streams |-> ~piped[st]]
  /\ output = [st \in Streams |-> <<>>]
  /\ readfds = {}
  \* the other subsystems are idle
  /\ variables = <<>> /\ varDeps = <<>> /\ targets = <<>> /\ targetDeps = <<>>
  /\ phony = None /\ all = None /\ varDecl = <<>> /\ redefined = FALSE
  /\ defOrderV = <<>> /\ defOrderT = <<>> /\ nDefs = 0
  /\ mk = [status |-> "none"]
  /\ pc = "idle" /\ hasBinTarget = FALSE /\ hasLibTarget = FALSE
  /\ targetName = "none" /\ exitStatus = None /\ cmdLog = <<>>
  /\ finished = FALSE /\ buildResult = "none"
  /\ svPc = "idle" /\ svA = None /\ svB = None /\ svC = None
  /\ rqPc = "idle" /\ req = None /\ canon = None /\ canon2 = None
  /\ ver = None /\ sat = FALSE /\ csat = FALSE
  /\ envPc = "idle" /\ environ = <<>> /\ environment = <<>> /\ childEnv = <<>>
  /\ hardware_concurrency = 0 /\ controls = <<>> /\ lastSet = 0 /\ got = 0
  /\ now = 0 /\ makefileTime = 0 /\ manifestTime = 0 /\ srcTimes = <<>>
  /\ emitted = FALSE /\ upToDate = FALSE /\ regenerated = FALSE /\ found = <<>>
  /\ mmPc = "idle" /\ sourceFile = <<>> /\ headers = <<>> /\ mmOutput = <<>>
  /\ objTarget = <<>> /\ objTargetDeps = <<>> /\ compileTarget = <<>>
  /\ ruleText = <<>> /\ compdbEntry = None
  /\ objTargets = <<>> /\ testSource = None /\ testObjTargetDeps = <<>>
  /\ testTargetDeps = <<>>
  /\ ldFlags = None /\ seenLibs = <<>> /\ merges = 0
  /\ depsParsed = <<>> /\ depEntry = None /\ depResult = "idle"
  /\ edStrA = "" /\ edStrB = "" /\ edA = None /\ edB = None
  /\ pkgToml = None /\ package = None /\ nameChecked = None
  /\ manifests = {} /\ origCandDir = <<>> /\ candidateDir = <<>>
  /\ configPath = <<>> /\ fpPc = "idle"
  /\ profToml = None /\ profiles = None /\ theFlag = <<>> /\ flagChecked = None
  /\ runPc = "idle" /\ executed = FALSE /\ runStatus = None /\ runResult = "none"
  /\ fdFn = "none" /\ fdOwned = <<>> /\ fdChunks = <<>> /\ fdEOF = <<>>
  /\ fdReady = {} /\ closeCount = <<>> /\ fdPc = "idle"
  /\ csSource = None /\ csList = <<>> /\ stack = <<>> /\ csDeps = <<>>
  /\ pushes = <<>> /\ csPc = "idle"

\* The child writes one byte to a stream; the byte is the number of the
\* write.  A write to a full pipe blocks.
ChildWrite ==
  /\ ~exited
  /\ Len(written["out"]) + Len(written["err"]) < MaxBytes
  /\ \E st \in Streams :
       /\ ~closedW[st]
       /\ piped[st] => Len(pipe[st]) < PipeCap
       /\ LET byte == Len(written["out"]) + Len(written["err"]) + 1
          IN /\ written' = [written EXCEPT ![st] = Append(@, byte)]
             /\ pipe' = IF piped[st]
                           THEN [pipe EXCEPT ![st] = Append(@, byte)]
                           ELSE pipe
  /\ UNCHANGED <<wPc, piped, closedW, exited, eof, output, readfds>>
  /\ UNCHANGED othersWT

\* The child closes one of its streams.
ChildClose ==
  /\ ~exited
  /\ \E st \in Streams :
       /\ ~closedW[st]
       /\ closedW' = [closedW EXCEPT ![st] = TRUE]
  /\ UNCHANGED <<wPc, piped, pipe, exited, written, eof, output, readfds>>
  /\ UNCHANGED othersWT

\* The child exits, which closes the streams it still has open.
ChildExit ==
  /\ ~exited
  /\ exited' = TRUE
  /\ closedW' = [st \in Streams |-> TRUE]
  /\ UNCHANGED <<wPc, piped, pipe, written, eof, output, readfds>>
  /\ UNCHANGED othersWT

\* Lines 115-133: the loop test, and select() on the streams not yet at
\* end of file; select blocks until one of them is ready, or fails.
WaitSelect ==
  /\ wPc = "select"
  /\ IF eof["out"] /\ eof["err"]
        THEN wPc' = "reap" /\ UNCHANGED readfds
        ELSE \/ /\ Ready # {}
                /\ readfds' = Ready
                /\ wPc' = "readOut"
             \/ /\ wPc' = "failed"
                /\ UNCHANGED readfds
  /\ UNCHANGED <<piped, pipe, closedW, exited, written, eof, output>>
  /\ UNCHANGED othersWT

\* One read() of the parent from stream st (lines 136-153, 156-173), then
\* on to the position next.
ReadFrom(st, next) ==
  IF ~eof[st] /\ st \in readfds
     THEN \/ LET count == Min(Len(pipe[st]), MaxRead)
             IN /\ IF count = 0
                      THEN /\ eof' = MarkEof(eof, st)
                           /\ UNCHANGED <<pipe, output>>
                      ELSE /\ output' = [output EXCEPT ![st] =
                                           @ \o SubSeq(pipe[st], 1, count)]
                           /\ pipe' = [pipe EXCEPT ![st] =
                                         SubSeq(@, count + 1, Len(@))]
                           /\ UNCHANGED eof
                /\ wPc' = next
          \/ /\ wPc' = "failed"
             /\ UNCHANGED <<pipe, output, eof>>
     ELSE /\ wPc' = next
          /\ UNCHANGED <<pipe, output, eof>>

\* Lines 135-153
WaitReadStdOut ==
  /\ wPc = "readOut"
  /\ ReadFrom("out", "readErr")
  /\ UNCHANGED <<piped, closedW, exited, written, readfds>>
  /\ UNCHANGED othersWT

\* Lines 155-173
WaitReadStdErr ==
  /\ wPc = "readErr"
  /\ ReadFrom("err", "select")
  /\ UNCHANGED <<piped, closedW, exited, written, readfds>>
  /\ UNCHANGED othersWT

\* Lines 176-182: waitpid() blocks until the child has exited, or fails;
\* then the CommandOutput is returned.
WaitReap ==
  /\ wPc = "reap"
  /\ \/ exited /\ wPc' = "returned"
     \/ wPc' = "failed"
  /\ UNCHANGED <<piped, pipe, closedW, exited, written, eof, output, readfds>>
  /\ UNCHANGED othersWT

ParentNext ==
  \/ WaitSelect
  \/ WaitReadStdOut
  \/ WaitReadStdErr
  \/ WaitReap

NextWait ==
  \/ ChildWrite
  \/ ChildClose
  \/ ChildExit
  \/ WaitSelect
  \/ WaitReadStdOut
  \/ WaitReadStdErr
  \/ WaitReap

SpecWait == InitWait /\ [][NextWait]_vars

\* The parent is a running process: a system call of it that can return
\* does return.
FairSpecWait == SpecWait /\ WF_vars(ParentNext)

Reaping == wPc \in {"reap", "returned"}

Finished == wPc \in {"returned", "failed"}

\* C14: whatever the interleaving of the child's writes to stdout and
\* stderr, waitWithOutput reaps the child only after it has seen end of file
\* on both pipes, with every byte of them read; the stdOut and stdErr it
\* returns are the complete byte sequences the child wrote; and once the
\* child has closed both streams and exited, the call comes to its end (with
\* the output, or with the error of a system call that failed).
C14_DrainThenReap ==
  /\ [](Reaping =>
          \A st \in Streams :
            /\ eof[st]
            /\ piped[st] => closedW[st] /\ pipe[st] = <<>>)
  /\ [](wPc = "returned" =>
          \A st \in Streams :
            output[st] = IF piped[st] THEN written[st] ELSE <<>>)
  /\ (exited ~> Finished)

\* Both streams piped, writes interleaved (stdout, stderr, stdout), all of
\* it returned.
C14_Witness ==
  /\ wPc = "returned"
  /\ piped["out"] /\ piped["err"]
  /\ written["out"] = <<1, 3>>
  /\ written["err"] = <<2>>
  /\ output = written

----------------------------------------------------------------------------
(* The parallelism cap: src/src/Parallelism.cc                             *)

\* Bounds: the largest std::thread::hardware_concurrency() (0 stands for
\* "not computable") and the largest argument of setParallelism.
MaxHw == 4
MaxThreads == 4

\* numThreads(), lines 12-18
numThreads(hw) == IF hw > 1 THEN hw ELSE 1

\* tbb::global_control::active_value(max_allowed_parallelism): the smallest
\* value among the global_control objects alive.
RECURSIVE active_value(_)
active_value(cs) ==
  IF Len(cs) = 1
     THEN Head(cs)
     ELSE Min(Head(cs), active_value(Tail(cs)))

\* ParallelismState::set without the test for 0.
CappedNever(n) == n

\* ParallelismState::set, lines 29-32: a request of 0 is capped at 1.
Capped(n) == IF n = 0 THEN 1 ELSE n

\* The singleton of ParallelismState after its constructor (lines 49-51):
\* one global_control with numThreads().
InitPar ==
  /\ hardware_concurrency \in 0..MaxHw
  /\ controls = <<numThreads(hardware_concurrency)>>
  /\ lastSet = Absent
  /\ got = Absent
  \* the other subsystems are idle
  /\ variables = <<>> /\ varDeps = <<>> /\ targets = <<>> /\ targetDeps = <<>>
  /\ phony = None /\ all = None /\ varDecl = <<>> /\ redefined = FALSE
  /\ defOrderV = <<>> /\ defOrderT = <<>> /\ nDefs = 0
  /\ mk = [status |-> "none"]
  /\ pc = "idle" /\ hasBinTarget = FALSE /\ hasLibTarget = FALSE
  /\ targetName = "none" /\ exitStatus = None /\ cmdLog = <<>>
  /\ finished = FALSE /\ buildResult = "none"
  /\ svPc = "idle" /\ svA = None /\ svB = None /\ svC = None
  /\ rqPc = "idle" /\ req = None /\ canon = None /\ canon2 = None
  /\ ver = None /\ sat = FALSE /\ csat = FALSE
  /\ envPc = "idle" /\ environ = <<>> /\ environment = <<>> /\ childEnv = <<>>
  /\ wPc = "idle" /\ piped = <<>> /\ pipe = <<>> /\ closedW = <<>>
  /\ exited = FALSE /\ written = <<>> /\ eof = <<>> /\ output = <<>>
  /\ readfds = {}
  /\ now = 0 /\ makefileTime = 0 /\ manifestTime = 0 /\ srcTimes = <<>>
  /\ emitted = FALSE /\ upToDate = FALSE /\ regenerated = FALSE /\ found = <<>>
  /\ mmPc = "idle" /\ sourceFile = <<>> /\ headers = <<>> /\ mmOutput = <<>>
  /\ objTarget = <<>> /\ objTargetDeps = <<>> /\ compileTarget = <<>>
  /\ ruleText = <<>> /\ compdbEntry = None
  /\ objTargets = <<>> /\ testSource = None /\ testObjTargetDeps = <<>>
  /\ testTargetDeps = <<>>
  /\ ldFlags = None /\ seenLibs = <<>> /\ merges = 0
  /\ depsParsed = <<>> /\ depEntry = None /\ depResult = "idle"
  /\ edStrA = "" /\ edStrB = "" /\ edA = None /\ edB = None
  /\ pkgToml = None /\ package = None /\ nameChecked = None
  /\ manifests = {} /\ origCandDir = <<>> /\ candidateDir = <<>>
  /\ configPath = <<>> /\ fpPc = "idle"
  /\ profToml = None /\ profiles = None /\ theFlag = <<>> /\ flagChecked = None
  /\ runPc = "idle" /\ executed = FALSE /\ runStatus = None /\ runResult = "none"
  /\ fdFn = "none" /\ fdOwned = <<>> /\ fdChunks = <<>> /\ fdEOF = <<>>
  /\ fdReady = {} /\ closeCount = <<>> /\ fdPc = "idle"
  /\ csSource = None /\ csList = <<>> /\ stack = <<>> /\ csDeps = <<>>
  /\ pushes = <<>> /\ csPc = "idle"

\* setParallelism(n), lines 54-56 and 28-36: make_unique constructs the new
\* global_control while the old one is alive; the assignment to `status`
\* then destroys the old one.
SetParallelism ==
  /\ \E n \in 0..MaxThreads :
       /\ LET both == Append(controls, Capped(n))
          IN controls' = Tail(both)
       /\ lastSet' = n
  /\ UNCHANGED <<hardware_concurrency, got>>
  /\ UNCHANGED othersPA

\* getParallelism(), lines 58-60 and 37-40
GetParallelism ==
  /\ got' = active_value(controls)
  /\ UNCHANGED <<hardware_concurrency, controls, lastSet>>
  /\ UNCHANGED othersPA

NextPar ==
  \/ SetParallelism
  \/ GetParallelism

SpecPar == InitPar /\ [][NextPar]_vars

Max(a, b) == IF a > b THEN a ELSE b

\* C15: before any setParallelism the cap is the hardware concurrency, and
\* at least 1; after a sequence of setParallelism calls getParallelism()
\* gives max(1, n) for the n of the latest call, so that a request of 0
\* gives 1.
C15_LatestSetWins ==
  /\ Len(controls) = 1
  /\ active_value(controls) =
       IF lastSet = Absent
          THEN Max(1, hardware_concurrency)
          ELSE Max(1, lastSet)
  /\ got # Absent => got >= 1

\* A cap of 3 was read, then 0 was requested.
C15_Witness ==
  /\ lastSet = 0
  /\ got = 3
  /\ active_value(controls) = 1

----------------------------------------------------------------------------
(* When the Makefile is generated again: src/src/BuildConfig.cc,           *)
(* isUpToDate and emitMakefile                                             *)

\* Bound: the latest time of the clock.
MaxTime == 2

\* What fs::recursive_directory_iterator("src") yields.
SrcEntries == {"src/main.cc", "src/Algos.hpp"}

\* What isUpToDate reads: the write times of the Makefile (Absent when there
\* is none), of the manifest and of the entries under src.
Files == [makefile |-> makefileTime, manifest |-> manifestTime,
          src |-> srcTimes]

\* `a >= b` in place of `a > b`: a file as old as the Makefile counts as
\* newer.
NotOlder(a, b) == a >= b

\* `fs::last_write_time(entry.path()) > makefileTime`, line 327
Newer(a, b) == a > b

\* isUpToDate, lines 319-332
isUpToDate(f) ==
  IF ~has_value(f.makefile)
     THEN FALSE
     ELSE IF \E e \in SrcEntries : Newer(f.src[e], f.makefile)
             THEN FALSE
             ELSE ~Newer(f.manifest, f.makefile)

InitUpToDate ==
  /\ now = 0
  /\ makefileTime = Absent
  /\ manifestTime = 0
  /\ srcTimes = [e \in SrcEntries |-> 0]
  /\ emitted = FALSE
  /\ upToDate = FALSE
  /\ regenerated = FALSE
  /\ found = [makefile |-> Absent, manifest |-> 0,
             src |-> [e \in SrcEntries |-> 0]]
  \* the other subsystems are idle
  /\ variables = <<>> /\ varDeps = <<>> /\ targets = <<>> /\ targetDeps = <<>>
  /\ phony = None /\ all = None /\ varDecl = <<>> /\ redefined = FALSE
  /\ defOrderV = <<>> /\ defOrderT = <<>> /\ nDefs = 0
  /\ mk = [status |-> "none"]
  /\ pc = "idle" /\ hasBinTarget = FALSE /\ hasLibTarget = FALSE
  /\ targetName = "none" /\ exitStatus = None /\ cmdLog = <<>>
  /\ finished = FALSE /\ buildResult = "none"
  /\ svPc = "idle" /\ svA = None /\ svB = None /\ svC = None
  /\ rqPc = "idle" /\ req = None /\ canon = None /\ canon2 = None
  /\ ver = None /\ sat = FALSE /\ csat = FALSE
  /\ envPc = "idle" /\ environ = <<>> /\ environment = <<>> /\ childEnv = <<>>
  /\ wPc = "idle" /\ piped = <<>> /\ pipe = <<>> /\ closedW = <<>>
  /\ exited = FALSE /\ written = <<>> /\ eof = <<>> /\ output = <<>>
  /\ readfds = {}
  /\ hardware_concurrency = 0 /\ controls = <<>> /\ lastSet = 0 /\ got = 0
  /\ mmPc = "idle" /\ sourceFile = <<>> /\ headers = <<>> /\ mmOutput = <<>>
  /\ objTarget = <<>> /\ objTargetDeps = <<>> /\ compileTarget = <<>>
  /\ ruleText = <<>> /\ compdbEntry = None
  /\ objTargets = <<>> /\ testSource = None /\ testObjTargetDeps = <<>>
  /\ testTargetDeps = <<>>
  /\ ldFlags = None /\ seenLibs = <<>> /\ merges = 0
  /\ depsParsed = <<>> /\ depEntry = None /\ depResult = "idle"
  /\ edStrA = "" /\ edStrB = "" /\ edA = None /\ edB = None
  /\ pkgToml = None /\ package = None /\ nameChecked = None
  /\ manifests = {} /\ origCandDir = <<>> /\ candidateDir = <<>>
  /\ configPath = <<>> /\ fpPc = "idle"
  /\ profToml = None /\ profiles = None /\ theFlag = <<>> /\ flagChecked = None
  /\ runPc = "idle" /\ executed = FALSE /\ runStatus = None /\ runResult = "none"
  /\ fdFn = "none" /\ fdOwned = <<>> /\ fdChunks = <<>> /\ fdEOF = <<>>
  /\ fdReady = {} /\ closeCount = <<>> /\ fdPc = "idle"
  /\ csSource = None /\ csList = <<>> /\ stack = <<>> /\ csDeps = <<>>
  /\ pushes = <<>> /\ csPc = "idle"

\* Time passes.
Tick ==
  /\ now < MaxTime
  /\ now' = now + 1
  /\ UNCHANGED <<makefileTime, manifestTime, srcTimes, emitted, upToDate,
                 regenerated, found>>
  /\ UNCHANGED othersUD

\* The user writes a file under src.
WriteSrc ==
  /\ \E e \in SrcEntries : srcTimes' = [srcTimes EXCEPT ![e] = now]
  /\ UNCHANGED <<now, makefileTime, manifestTime, emitted, upToDate,
                 regenerated, found>>
  /\ UNCHANGED othersUD

\* The user writes the manifest.
WriteManifest ==
  /\ manifestTime' = now
  /\ UNCHANGED <<now, makefileTime, srcTimes, emitted, upToDate,
                 regenerated, found>>
  /\ UNCHANGED othersUD

\* The output directory is removed (`clean`).
RemoveMakefile ==
  /\ has_value(makefileTime)
  /\ makefileTime' = Absent
  /\ UNCHANGED <<now, manifestTime, srcTimes, emitted, upToDate,
                 regenerated, found>>
  /\ UNCHANGED othersUD

\* emitMakefile, lines 623-642: nothing is written when isUpToDate; else the
\* configuration is built and written to the Makefile, now.
EmitMakefileToOutDir ==
  /\ emitted' = TRUE
  /\ found' = Files
  /\ upToDate' = isUpToDate(Files)
  /\ IF isUpToDate(Files)
        THEN /\ regenerated' = FALSE
             /\ UNCHANGED makefileTime
        ELSE /\ regenerated' = TRUE
             /\ makefileTime' = now
  /\ UNCHANGED <<now, manifestTime, srcTimes>>
  /\ UNCHANGED othersUD

NextUpToDate ==
  \/ Tick
  \/ WriteSrc
  \/ WriteManifest
  \/ RemoveMakefile
  \/ EmitMakefileToOutDir

SpecUpToDate == InitUpToDate /\ [][NextUpToDate]_vars

----------------------------------------------------------------------------
(* The prerequisites of a compile target: src/src/BuildConfig.cc,          *)
(* parseMMOutput, configureBuild (source pass), emitTarget, emitCompdb.    *)
(* Strings are tuples of characters.                                       *)

\* Bounds: the headers the compiler lists for one source file, and the
\* column at which emitTarget breaks a line (80, scaled down).
MaxHeaders == 2
LineWidth == 8

SourceFiles == {<<"m", "c">>, <<"n", "c">>}
HeaderFiles == {<<"a", "h">>, <<"b", "h">>}
BuildOutDir == <<"d">>

\* The object the compiler names for a source file: its stem with .o
ObjOf(source) == <<source[1], "o">>

\* What `$(CXX) -MM source` prints: "object: source header ...", the
\* prerequisites separated by a space or by a line continuation, and a
\* newline at the end.
RECURSIVE MMList(_, _, _)
MMList(deps, breaks, i) ==
  IF i > Len(deps)
     THEN <<"\n">>
     ELSE (IF breaks[i] THEN <<" ", "\\", "\n", " ">> ELSE <<" ">>)
          \o deps[i] \o MMList(deps, breaks, i + 1)

runMM(source, included, breaks) ==
  ObjOf(source) \o <<":">> \o MMList(<<source>> \o included, breaks, 1)

\* std::getline(iss, token, delim), repeated to the end of the stream: the
\* tokens between delimiters; nothing is read after a last delimiter.
RECURSIVE getlines(_, _, _, _)
getlines(str, delim, i, cur) ==
  IF i > Len(str)
     THEN IF cur = <<>> THEN <<>> ELSE <<cur>>
     ELSE IF str[i] = delim
             THEN <<cur>> \o getlines(str, delim, i + 1, <<>>)
             ELSE getlines(str, delim, i + 1, Append(cur, str[i]))

\* OrderedHashSet::pushBack putting the value in front.
pushFront(set, value) ==
  IF value \in SeqToSet(set) THEN set ELSE <<value>> \o set

\* OrderedHashSet::pushBack, Algos.hpp lines 37-42
pushBack(set, value) ==
  IF value \in SeqToSet(set) THEN set ELSE Append(set, value)

\* The loop of parseMMOutput, lines 307-315
RECURSIVE parseDeps(_, _, _)
parseDeps(tokens, i, deps) ==
  IF i > Len(tokens)
     THEN deps
     ELSE LET dependency == tokens[i]
          IN IF dependency # <<>> /\ Head(dependency) # "\\"
                THEN LET stripped ==
                           IF dependency[Len(dependency)] = "\n"
                              THEN SubSeq(dependency, 1, Len(dependency) - 1)
                              ELSE dependency
                     IN parseDeps(tokens, i + 1, pushBack(deps, stripped))
                ELSE parseDeps(tokens, i + 1, deps)

\* parseMMOutput, lines 300-317: the target is what stands before the first
\* colon, the prerequisites are the tokens after it.
parseMMOutput(text) ==
  LET colon == CHOOSE i \in 1..Len(text) :
                 /\ text[i] = ":"
                 /\ \A j \in 1..(i - 1) : text[j] # ":"
      rest == SubSeq(text, colon + 1, Len(text))
  IN [target |-> SubSeq(text, 1, colon - 1),
      deps |-> parseDeps(getlines(rest, " ", 1, <<>>), 1, <<>>)]

Spaces(n) == [i \in 1..n |-> " "]

\* The loop of emitTarget over the prerequisites, lines 191-199: a line
\* continuation, set to the right by std::setw, when the prerequisite would
\* pass the last column.
RECURSIVE emitDeps(_, _, _)
emitDeps(dependsOn, i, offset) ==
  IF i > Len(dependsOn)
     THEN <<"\n">>
     ELSE LET dep == dependsOn[i]
              wrap == offset + Len(dep) + 2 > LineWidth
              off == IF wrap THEN 2 ELSE offset
          IN (IF wrap
                 THEN Spaces(Max(0, LineWidth + 3 - offset - 4))
                      \o <<" ", "\\", "\n", " ">>
                 ELSE <<>>)
             \o <<" ">> \o dep
             \o emitDeps(dependsOn, i + 1, off + Len(dep) + 1)

\* emitTarget, lines 181-200: the first line(s) of a rule
emitTargetLine(target, dependsOn) ==
  target \o <<":">> \o emitDeps(dependsOn, 1, Len(target) + 2)

\* How make reads the line: the words after the colon, separated by blanks,
\* a backslash with a newline being a blank.
RECURSIVE MakeWords(_, _, _)
MakeWords(str, i, cur) ==
  IF i > Len(str)
     THEN IF cur = <<>> THEN <<>> ELSE <<cur>>
     ELSE IF str[i] \in {" ", "\\", "\n", ":"}
             THEN (IF cur = <<>> THEN <<>> ELSE <<cur>>)
                  \o MakeWords(str, i + 1, <<>>)
             ELSE MakeWords(str, i + 1, Append(cur, str[i]))

NoTarget == [commands |-> <<>>, dependsOn |-> <<>>]

InitMM ==
  /\ mmPc = "runMM"
  /\ sourceFile \in SourceFiles
  /\ headers \in SeqsUpTo(HeaderFiles, MaxHeaders)
  /\ mmOutput \in {runMM(sourceFile, headers, b) :
                     b \in [1..(Len(headers) + 1) -> BOOLEAN]}
  /\ objTarget = <<>>
  /\ objTargetDeps = <<>>
  /\ compileTarget = NoTarget
  /\ ruleText = <<>>
  /\ compdbEntry = None
  \* the other subsystems are idle
  /\ variables = <<>> /\ varDeps = <<>> /\ targets = <<>> /\ targetDeps = <<>>
  /\ phony = None /\ all = None /\ varDecl = <<>> /\ redefined = FALSE
  /\ defOrderV = <<>> /\ defOrderT = <<>> /\ nDefs = 0
  /\ mk = [status |-> "none"]
  /\ pc = "idle" /\ hasBinTarget = FALSE /\ hasLibTarget = FALSE
  /\ targetName = "none" /\ exitStatus = None /\ cmdLog = <<>>
  /\ finished = FALSE /\ buildResult = "none"
  /\ svPc = "idle" /\ svA = None /\ svB = None /\ svC = None
  /\ rqPc = "idle" /\ req = None /\ canon = None /\ canon2 = None
  /\ ver = None /\ sat = FALSE /\ csat = FALSE
  /\ envPc = "idle" /\ environ = <<>> /\ environment = <<>> /\ childEnv = <<>>
  /\ wPc = "idle" /\ piped = <<>> /\ pipe = <<>> /\ closedW = <<>>
  /\ exited = FALSE /\ written = <<>> /\ eof = <<>> /\ output = <<>>
  /\ readfds = {}
  /\ hardware_concurrency = 0 /\ controls = <<>> /\ lastSet = 0 /\ got = 0
  /\ now = 0 /\ makefileTime = 0 /\ manifestTime = 0 /\ srcTimes = <<>>
  /\ emitted = FALSE /\ upToDate = FALSE /\ regenerated = FALSE /\ found = <<>>
  /\ objTargets = <<>> /\ testSource = None /\ testObjTargetDeps = <<>>
  /\ testTargetDeps = <<>>
  /\ ldFlags = None /\ seenLibs = <<>> /\ merges = 0
  /\ depsParsed = <<>> /\ depEntry = None /\ depResult = "idle"
  /\ edStrA = "" /\ edStrB = "" /\ edA = None /\ edB = None
  /\ pkgToml = None /\ package = None /\ nameChecked = None
  /\ manifests = {} /\ origCandDir = <<>> /\ candidateDir = <<>>
  /\ configPath = <<>> /\ fpPc = "idle"
  /\ profToml = None /\ profiles = None /\ theFlag = <<>> /\ flagChecked = None
  /\ runPc = "idle" /\ executed = FALSE /\ runStatus = None /\ runResult = "none"
  /\ fdFn = "none" /\ fdOwned = <<>> /\ fdChunks = <<>> /\ fdEOF = <<>>
  /\ fdReady = {} /\ closeCount = <<>> /\ fdPc = "idle"
  /\ csSource = None /\ csList = <<>> /\ stack = <<>> /\ csDeps = <<>>
  /\ pushes = <<>> /\ csPc = "idle"

\* configureBuild, lines 520-522
ParseMMOutput ==
  /\ mmPc = "runMM"
  /\ objTarget' = parseMMOutput(mmOutput).target
  /\ objTargetDeps' = parseMMOutput(mmOutput).deps
  /\ mmPc' = "parsed"
  /\ UNCHANGED <<sourceFile, headers, mmOutput, compileTarget, ruleText,
                 compdbEntry>>
  /\ UNCHANGED othersMM

\* configureBuild, lines 528-540, and defineCompileTarget, lines 364-378:
\* the order-only prerequisites are added and the target is defined.
DefineCompileTarget ==
  /\ mmPc = "parsed"
  /\ LET deps == pushBack(pushBack(objTargetDeps, <<"|">>), BuildOutDir)
     IN compileTarget' =
          [commands |-> <<"echo Compiling", "$(CXX) -c $< -o $@">>,
           dependsOn |-> deps]
  /\ mmPc' = "defined"
  /\ UNCHANGED <<sourceFile, headers, mmOutput, objTarget, objTargetDeps,
                 ruleText, compdbEntry>>
  /\ UNCHANGED othersMM

\* BuildConfig::emitMakefile, line 225: the rule of the target is written.
EmitRule ==
  /\ mmPc = "defined"
  /\ ruleText = <<>>
  /\ ruleText' = emitTargetLine(objTarget, compileTarget.dependsOn)
  /\ UNCHANGED <<mmPc, sourceFile, headers, mmOutput, objTarget,
                 objTargetDeps, compileTarget, compdbEntry>>
  /\ UNCHANGED othersMM

\* BuildConfig::emitCompdb, lines 256-275: the entry of the target.
EmitCompdbEntry ==
  /\ mmPc = "defined"
  /\ compdbEntry = None
  /\ compdbEntry' = [file |-> compileTarget.dependsOn[1],
                     output |-> objTarget]
  /\ UNCHANGED <<mmPc, sourceFile, headers, mmOutput, objTarget,
                 objTargetDeps, compileTarget, ruleText>>
  /\ UNCHANGED othersMM

NextMM ==
  \/ ParseMMOutput
  \/ DefineCompileTarget
  \/ EmitRule
  \/ EmitCompdbEntry

SpecMM == InitMM /\ [][NextMM]_vars

\* The elements of s, each at the place where it first occurs.
RECURSIVE FirstSeen(_)
FirstSeen(s) ==
  IF s = <<>>
     THEN <<>>
     ELSE LET init == FirstSeen(SubSeq(s, 1, Len(s) - 1))
              last == s[Len(s)]
          IN IF \E i \in 1..(Len(s) - 1) : s[i] = last
                THEN init
                ELSE Append(init, last)

----------------------------------------------------------------------------
(* The objects a test binary links: src/src/BuildConfig.cc,                *)
(* collectBinDepObjs and the source and test passes of configureBuild      *)

\* Bound: the headers the compiler lists for one source file.
MaxIncludes == 2

\* The translation units under src: a directory below src and a stem.  Two
\* of them have the same stem.
Units == {[dir |-> ".", stem |-> "a"], [dir |-> ".", stem |-> "b"],
          [dir |-> "u", stem |-> "a"]}

SourceOf(u) == [dir |-> u.dir, stem |-> u.stem, ext |-> ".cc"]
HeaderOf(u) == [dir |-> u.dir, stem |-> u.stem, ext |-> ".h"]

HEADER_FILE_EXTS == {".h", ".h++", ".hh", ".hpp", ".hxx"}

\* The order-only prerequisites configureBuild adds: "|" and a directory.
OrderOnly(outDir) ==
  <<[dir |-> ".", stem |-> "|", ext |-> ""],
    [dir |-> ".", stem |-> outDir, ext |-> ""]>>

\* Lists of distinct headers, as the compiler prints them.
HeaderLists ==
  {l \in SeqsUpTo({HeaderOf(u) : u \in Units}, MaxIncludes) :
     \A i, j \in 1..Len(l) : i # j => l[i] # l[j]}

\* headerObjTarget, lines 408-418: the object in the build directory with
\* the header's directory below src and the header's stem.
BuildObj(path) == [out |-> "poac.d", dir |-> path.dir, stem |-> path.stem]

\* testObjTarget, lines 577-578
TestObj(path) == [out |-> "tests", dir |-> path.dir, stem |-> path.stem]

\* buildObjTargets: one object for every source file seen in the source pass
buildObjTargets == DOMAIN objTargets

\* The stems are never taken as equal.
sameStemNever(sourcePath, headerPath) == FALSE

\* `sourceFile.stem() == headerPath.stem()`, line 398
sameStem(sourcePath, headerPath) == sourcePath.stem = headerPath.stem

\* collectBinDepObjs, lines 390-437, from the i-th element of objTargetDeps
RECURSIVE collectBinDepObjs(_, _, _, _)
collectBinDepObjs(deps, objTargetDepList, i, sourcePath) ==
  IF i > Len(objTargetDepList)
     THEN deps
     ELSE LET headerPath == objTargetDepList[i]
              headerObjTarget == BuildObj(headerPath)
              rest(d) == collectBinDepObjs(d, objTargetDepList, i + 1,
                                           sourcePath)
          IN IF sameStem(sourcePath, headerPath)
                THEN rest(deps)
                ELSE IF headerPath.ext \notin HEADER_FILE_EXTS
                        THEN rest(deps)
                        ELSE IF headerObjTarget \in SeqToSet(deps)
                                THEN rest(deps)
                                ELSE IF headerObjTarget \notin buildObjTargets
                                        THEN rest(deps)
                                        ELSE rest(collectBinDepObjs(
                                               pushBack(deps, headerObjTarget),
                                               objTargets[headerObjTarget],
                                               1, sourcePath))

InitCollect ==
  /\ objTargets = <<>>
  /\ testSource = None
  /\ testObjTargetDeps = <<>>
  /\ testTargetDeps = <<>>
  \* the other subsystems are idle
  /\ variables = <<>> /\ varDeps = <<>> /\ targets = <<>> /\ targetDeps = <<>>
  /\ phony = None /\ all = None /\ varDecl = <<>> /\ redefined = FALSE
  /\ defOrderV = <<>> /\ defOrderT = <<>> /\ nDefs = 0
  /\ mk = [status |-> "none"]
  /\ pc = "idle" /\ hasBinTarget = FALSE /\ hasLibTarget = FALSE
  /\ targetName = "none" /\ exitStatus = None /\ cmdLog = <<>>
  /\ finished = FALSE /\ buildResult = "none"
  /\ svPc = "idle" /\ svA = None /\ svB = None /\ svC = None
  /\ rqPc = "idle" /\ req = None /\ canon = None /\ canon2 = None
  /\ ver = None /\ sat = FALSE /\ csat = FALSE
  /\ envPc = "idle" /\ environ = <<>> /\ environment = <<>> /\ childEnv = <<>>
  /\ wPc = "idle" /\ piped = <<>> /\ pipe = <<>> /\ closedW = <<>>
  /\ exited = FALSE /\ written = <<>> /\ eof = <<>> /\ output = <<>>
  /\ readfds = {}
  /\ hardware_concurrency = 0 /\ controls = <<>> /\ lastSet = 0 /\ got = 0
  /\ now = 0 /\ makefileTime = 0 /\ manifestTime = 0 /\ srcTimes = <<>>
  /\ emitted = FALSE /\ upToDate = FALSE /\ regenerated = FALSE /\ found = <<>>
  /\ mmPc = "idle" /\ sourceFile = <<>> /\ headers = <<>> /\ mmOutput = <<>>
  /\ objTarget = <<>> /\ objTargetDeps = <<>> /\ compileTarget = <<>>
  /\ ruleText = <<>> /\ compdbEntry = None
  /\ ldFlags = None /\ seenLibs = <<>> /\ merges = 0
  /\ depsParsed = <<>> /\ depEntry = None /\ depResult = "idle"
  /\ edStrA = "" /\ edStrB = "" /\ edA = None /\ edB = None
  /\ pkgToml = None /\ package = None /\ nameChecked = None
  /\ manifests = {} /\ origCandDir = <<>> /\ candidateDir = <<>>
  /\ configPath = <<>> /\ fpPc = "idle"
  /\ profToml = None /\ profiles = None /\ theFlag = <<>> /\ flagChecked = None
  /\ runPc = "idle" /\ executed = FALSE /\ runStatus = None /\ runResult = "none"
  /\ fdFn = "none" /\ fdOwned = <<>> /\ fdChunks = <<>> /\ fdEOF = <<>>
  /\ fdReady = {} /\ closeCount = <<>> /\ fdPc = "idle"
  /\ csSource = None /\ csList = <<>> /\ stack = <<>> /\ csDeps = <<>>
  /\ pushes = <<>> /\ csPc = "idle"

\* Source pass, lines 519-541: the object of one source file is defined
\* with the prerequisites the compiler prints (the source file first).
DefineBuildObj ==
  /\ testSource = None
  /\ \E u \in Units, l \in HeaderLists :
       /\ BuildObj(u) \notin buildObjTargets
       /\ objTargets' = MapPut(objTargets, BuildObj(u),
                               <<SourceOf(u)>> \o l \o OrderOnly("poac.d"))
  /\ UNCHANGED <<testSource, testObjTargetDeps, testTargetDeps>>
  /\ UNCHANGED othersCB

\* Test pass, lines 555-596: for a source file with test code, the test
\* object is defined and the objects of the test binary are collected.
DefineTestTarget ==
  /\ testSource = None
  /\ \E u \in Units, l \in HeaderLists :
       /\ BuildObj(u) \in buildObjTargets
       /\ LET testDeps == <<SourceOf(u)>> \o l \o OrderOnly("tests")
          IN /\ testSource' = SourceOf(u)
             /\ testObjTargetDeps' = testDeps
             /\ testTargetDeps' =
                  collectBinDepObjs(<<TestObj(SourceOf(u))>>, testDeps,
                                    1, SourceOf(u))
  /\ UNCHANGED objTargets
  /\ UNCHANGED othersCB

NextCollect ==
  \/ DefineBuildObj
  \/ DefineTestTarget

SpecCollect == InitCollect /\ [][NextCollect]_vars

\* The known build objects a list of prerequisites leads to in one step:
\* those of its headers that have not the stem of the test's source file.
ObjsOfHeaders(list) ==
  {BuildObj(list[i]) : i \in {j \in 1..Len(list) :
      /\ list[j].ext \in HEADER_FILE_EXTS
      /\ list[j].stem # testSource.stem}} \cap buildObjTargets

ObjEdges ==
  {e \in buildObjTargets \X buildObjTargets :
     e[2] \in ObjsOfHeaders(objTargets[e[1]])}

\* C18: what the test binary of S links besides the test object of S are
\* exactly the known build objects of the headers reached, through the
\* prerequisites of those objects, from the headers S depends on, the
\* objects with the stem of S left out; nothing outside the known build
\* objects is among them.
C18_TestLinksReachedObjs ==
  testSource # None =>
    LET linked == SeqToSet(testTargetDeps) \ {TestObj(testSource)}
        start == ObjsOfHeaders(testObjTargetDeps)
    IN /\ testTargetDeps[1] = TestObj(testSource)
       /\ linked = ReachFrom(ObjEdges, start, start)
       /\ linked \subseteq buildObjTargets
       /\ \A o \in linked : o.stem # testSource.stem

\* The test of ./a depends on b.h alone; the object of b is linked, and the
\* object of u/a, reached only through b's prerequisites, is left out for
\* its stem.
C18_Witness ==
  /\ testSource = [dir |-> ".", stem |-> "a", ext |-> ".cc"]
  /\ Len(testObjTargetDeps) = 4
  /\ testObjTargetDeps[2] = [dir |-> ".", stem |-> "b", ext |-> ".h"]
  /\ DOMAIN objTargets = {BuildObj(u) : u \in Units}
  /\ objTargets[BuildObj([dir |-> ".", stem |-> "b"])][2]
       = [dir |-> "u", stem |-> "a", ext |-> ".h"]
  /\ SeqToSet(testTargetDeps) =
       {TestObj(testSource), BuildObj([dir |-> ".", stem |-> "b"])}

----------------------------------------------------------------------------
(* Linker flags: src/src/Builder/Compiler.cc, LdFlags                      *)

\* Bound: the flags of each kind given in all, to the constructor and to the
\* merges.
MaxFlags == 4

LibNames == {"m", "z", "ssl"}
LibDirNames == {"/usr/lib"}
OtherLdFlags == {"-pthread"}

\* The loop of the constructor (lines 122-128) and of merge (lines 142-146):
\* a library is appended when its name can be inserted into libSet.
RECURSIVE dedupLibs(_, _, _, _)
dedupLibs(libSet, dedup, libList, i) ==
  IF i > Len(libList)
     THEN dedup
     ELSE IF libList[i] \in libSet
             THEN dedupLibs(libSet, dedup, libList, i + 1)
             ELSE dedupLibs(libSet \cup {libList[i]},
                            Append(dedup, libList[i]), libList, i + 1)

\* LdFlags::LdFlags, lines 118-130
LdFlags(dirs, libList, otherFlags) ==
  [libDirs |-> dirs,
   libs |-> dedupLibs({}, <<>>, libList, 1),
   others |-> otherFlags]

\* merge with every library of `other` appended.
mergeLibsAll(libList, otherLibs) == libList \o otherLibs

\* LdFlags::merge, lines 136-147: the libraries of `other` whose name is not
\* among this->libs are appended.
mergeLibs(libList, otherLibs) ==
  libList \o dedupLibs(SeqToSet(libList), <<>>, otherLibs, 1)

\* LdFlags::merge, lines 132-148
merge(self, other) ==
  [libDirs |-> self.libDirs \o other.libDirs,
   libs |-> mergeLibs(self.libs, other.libs),
   others |-> self.others \o other.others]

InitLd ==
  /\ \E d \in SeqsUpTo(LibDirNames, 1), l \in SeqsUpTo(LibNames, MaxFlags),
        o \in SeqsUpTo(OtherLdFlags, 1) :
       /\ ldFlags = LdFlags(d, l, o)
       /\ seenLibs = l
  /\ merges = 0
  \* the other subsystems are idle
  /\ variables = <<>> /\ varDeps = <<>> /\ targets = <<>> /\ targetDeps = <<>>
  /\ phony = None /\ all = None /\ varDecl = <<>> /\ redefined = FALSE
  /\ defOrderV = <<>> /\ defOrderT = <<>> /\ nDefs = 0
  /\ mk = [status |-> "none"]
  /\ pc = "idle" /\ hasBinTarget = FALSE /\ hasLibTarget = FALSE
  /\ targetName = "none" /\ exitStatus = None /\ cmdLog = <<>>
  /\ finished = FALSE /\ buildResult = "none"
  /\ svPc = "idle" /\ svA = None /\ svB = None /\ svC = None
  /\ rqPc = "idle" /\ req = None /\ canon = None /\ canon2 = None
  /\ ver = None /\ sat = FALSE /\ csat = FALSE
  /\ envPc = "idle" /\ environ = <<>> /\ environment = <<>> /\ childEnv = <<>>
  /\ wPc = "idle" /\ piped = <<>> /\ pipe = <<>> /\ closedW = <<>>
  /\ exited = FALSE /\ written = <<>> /\ eof = <<>> /\ output = <<>>
  /\ readfds = {}
  /\ hardware_concurrency = 0 /\ controls = <<>> /\ lastSet = 0 /\ got = 0
  /\ now = 0 /\ makefileTime = 0 /\ manifestTime = 0 /\ srcTimes = <<>>
  /\ emitted = FALSE /\ upToDate = FALSE /\ regenerated = FALSE /\ found = <<>>
  /\ mmPc = "idle" /\ sourceFile = <<>> /\ headers = <<>> /\ mmOutput = <<>>
  /\ objTarget = <<>> /\ objTargetDeps = <<>> /\ compileTarget = <<>>
  /\ ruleText = <<>> /\ compdbEntry = None
  /\ objTargets = <<>> /\ testSource = None /\ testObjTargetDeps = <<>>
  /\ testTargetDeps = <<>>
  /\ depsParsed = <<>> /\ depEntry = None /\ depResult = "idle"
  /\ edStrA = "" /\ edStrB = "" /\ edA = None /\ edB = None
  /\ pkgToml = None /\ package = None /\ nameChecked = None
  /\ manifests = {} /\ origCandDir = <<>> /\ candidateDir = <<>>
  /\ configPath = <<>> /\ fpPc = "idle"
  /\ profToml = None /\ profiles = None /\ theFlag = <<>> /\ flagChecked = None
  /\ runPc = "idle" /\ executed = FALSE /\ runStatus = None /\ runResult = "none"
  /\ fdFn = "none" /\ fdOwned = <<>> /\ fdChunks = <<>> /\ fdEOF = <<>>
  /\ fdReady = {} /\ closeCount = <<>> /\ fdPc = "idle"
  /\ csSource = None /\ csList = <<>> /\ stack = <<>> /\ csDeps = <<>>
  /\ pushes = <<>> /\ csPc = "idle"

\* An LdFlags is constructed from a list of flags and merged into ldFlags.
Merge ==
  /\ \E d \in SeqsUpTo(LibDirNames, 1), l \in SeqsUpTo(LibNames, MaxFlags),
        o \in SeqsUpTo(OtherLdFlags, 1) :
       /\ Len(seenLibs) + Len(l) <= MaxFlags
       /\ Len(ldFlags.libDirs) + Len(d) <= MaxFlags
       /\ Len(ldFlags.others) + Len(o) <= MaxFlags
       /\ ldFlags' = merge(ldFlags, LdFlags(d, l, o))
       /\ seenLibs' = seenLibs \o l
  /\ merges < MaxFlags
  /\ merges' = merges + 1
  /\ UNCHANGED othersLD

NextLd == Merge

SpecLd == InitLd /\ [][NextLd]_vars

\* C19: after the constructor and any sequence of merges the list of
\* libraries holds no name twice, and the names stand in the order in which
\* each was first seen over all the lists given.
C19_LibsFirstSeenOrder ==
  /\ \A i, j \in 1..Len(ldFlags.libs) :
       i # j => ldFlags.libs[i] # ldFlags.libs[j]
  /\ ldFlags.libs = FirstSeen(seenLibs)

\* A library given twice to the constructor and once more in a merge that
\* also brings a new one.
C19_Witness ==
  /\ merges = 1
  /\ seenLibs = <<"z", "z", "m", "z">>
  /\ ldFlags.libs = <<"z", "m">>

----------------------------------------------------------------------------
(* Dependencies of the manifest: src/src/Manifest.cc, parseDependencies    *)

\* Bound: the entries read from one [dependencies] table.
MaxEntries == 1

\* What a key of an entry holds: nothing, a string, or a value of another
\* type.  `system` holds nothing, a boolean or another type; `version` a
\* string that is a version requirement, a string that is none, or another
\* type.
KeyValues == {"absent", "string", "other"}
SystemValues == {"absent", "true", "false", "other"}
VersionValues == {"absent", "req", "string", "other"}

\* The entries: a value that is no table, or a table with these keys, under
\* a name that validateDepName accepts or not.
DepEntries ==
  [is_table : {FALSE}, validName : {TRUE}, git : {"absent"},
   rev : {"absent"}, tag : {"absent"}, branch : {"absent"},
   path : {"absent"}, system : {"absent"}, version : {"absent"}]
  \cup
  [is_table : {TRUE}, validName : BOOLEAN, git : KeyValues,
   rev : KeyValues, tag : KeyValues, branch : KeyValues,
   path : KeyValues, system : SystemValues, version : VersionValues]

contains(info, key) == info[key] # "absent"

\* parseGitDep, lines 325-347: the first of rev, tag, branch that holds a
\* string is the target; nothing is rejected but the name.
parseGitDep(info) ==
  IF ~info.validName
     THEN [res |-> "Err"]
     ELSE [res |-> "Ok", kind |-> "git",
           target |-> IF info.git # "string" THEN "none"
                      ELSE IF info.rev = "string" THEN "rev"
                      ELSE IF info.tag = "string" THEN "tag"
                      ELSE IF info.branch = "string" THEN "branch"
                      ELSE "none"]

\* parsePathDep, lines 349-355
parsePathDep(info) ==
  IF ~info.validName
     THEN [res |-> "Err"]
     ELSE IF info.path # "string"
             THEN [res |-> "Err"]
             ELSE [res |-> "Ok", kind |-> "path", target |-> "none"]

\* parseSystemDep, lines 357-366: info.at("version") throws when there is no
\* such key, and the function is noexcept.
parseSystemDep(info) ==
  IF ~info.validName
     THEN [res |-> "Err"]
     ELSE IF ~contains(info, "version")
             THEN [res |-> "terminate"]
             ELSE IF info.version = "other"
                     THEN [res |-> "Err"]
                     ELSE IF info.version # "req"
                             THEN [res |-> "Err"]
                             ELSE [res |-> "Ok", kind |-> "system",
                                   target |-> "none"]

\* The body of the loop of parseDependencies, lines 377-394, for one entry;
\* as_boolean() throws when `system` is no boolean.
parseDependency(dep) ==
  IF dep.is_table
     THEN IF contains(dep, "git")
             THEN parseGitDep(dep)
             ELSE IF contains(dep, "system") /\ dep.system = "other"
                     THEN [res |-> "terminate"]
                     ELSE IF contains(dep, "system") /\ dep.system = "true"
                             THEN parseSystemDep(dep)
                             ELSE IF contains(dep, "path")
                                     THEN parsePathDep(dep)
                                     ELSE [res |-> "Err"]
     ELSE [res |-> "Err"]

InitDeps ==
  /\ depsParsed = <<>>
  /\ depEntry = None
  /\ depResult = "parsing"
  \* the other subsystems are idle
  /\ variables = <<>> /\ varDeps = <<>> /\ targets = <<>> /\ targetDeps = <<>>
  /\ phony = None /\ all = None /\ varDecl = <<>> /\ redefined = FALSE
  /\ defOrderV = <<>> /\ defOrderT = <<>> /\ nDefs = 0
  /\ mk = [status |-> "none"]
  /\ pc = "idle" /\ hasBinTarget = FALSE /\ hasLibTarget = FALSE
  /\ targetName = "none" /\ exitStatus = None /\ cmdLog = <<>>
  /\ finished = FALSE /\ buildResult = "none"
  /\ svPc = "idle" /\ svA = None /\ svB = None /\ svC = None
  /\ rqPc = "idle" /\ req = None /\ canon = None /\ canon2 = None
  /\ ver = None /\ sat = FALSE /\ csat = FALSE
  /\ envPc = "idle" /\ environ = <<>> /\ environment = <<>> /\ childEnv = <<>>
  /\ wPc = "idle" /\ piped = <<>> /\ pipe = <<>> /\ closedW = <<>>
  /\ exited = FALSE /\ written = <<>> /\ eof = <<>> /\ output = <<>>
  /\ readfds = {}
  /\ hardware_concurrency = 0 /\ controls = <<>> /\ lastSet = 0 /\ got = 0
  /\ now = 0 /\ makefileTime = 0 /\ manifestTime = 0 /\ srcTimes = <<>>
  /\ emitted = FALSE /\ upToDate = FALSE /\ regenerated = FALSE /\ found = <<>>
  /\ mmPc = "idle" /\ sourceFile = <<>> /\ headers = <<>> /\ mmOutput = <<>>
  /\ objTarget = <<>> /\ objTargetDeps = <<>> /\ compileTarget = <<>>
  /\ ruleText = <<>> /\ compdbEntry = None
  /\ objTargets = <<>> /\ testSource = None /\ testObjTargetDeps = <<>>
  /\ testTargetDeps = <<>>
  /\ ldFlags = None /\ seenLibs = <<>> /\ merges = 0
  /\ edStrA = "" /\ edStrB = "" /\ edA = None /\ edB = None
  /\ pkgToml = None /\ package = None /\ nameChecked = None
  /\ manifests = {} /\ origCandDir = <<>> /\ candidateDir = <<>>
  /\ configPath = <<>> /\ fpPc = "idle"
  /\ profToml = None /\ profiles = None /\ theFlag = <<>> /\ flagChecked = None
  /\ runPc = "idle" /\ executed = FALSE /\ runStatus = None /\ runResult = "none"
  /\ fdFn = "none" /\ fdOwned = <<>> /\ fdChunks = <<>> /\ fdEOF = <<>>
  /\ fdReady = {} /\ closeCount = <<>> /\ fdPc = "idle"
  /\ csSource = None /\ csList = <<>> /\ stack = <<>> /\ csDeps = <<>>
  /\ pushes = <<>> /\ csPc = "idle"

\* One turn of the loop of parseDependencies: the dependency is appended, or
\* the function returns the error, or the program is terminated.
ParseDependency ==
  /\ depResult = "parsing"
  /\ Len(depsParsed) < MaxEntries
  /\ \E dep \in DepEntries :
       /\ depEntry' = dep
       /\ IF parseDependency(dep).res = "Ok"
             THEN /\ depsParsed' = Append(depsParsed,
                                          [kind |-> parseDependency(dep).kind,
                                           target |-> parseDependency(dep).target])
                  /\ UNCHANGED depResult
             ELSE /\ depResult' = parseDependency(dep).res
                  /\ UNCHANGED depsParsed
  /\ UNCHANGED othersDP

\* The loop is at its end: `return Ok(deps)`, line 395.
ReturnDependencies ==
  /\ depResult = "parsing"
  /\ depResult' = "Ok"
  /\ UNCHANGED <<depsParsed, depEntry>>
  /\ UNCHANGED othersDP

NextDeps ==
  \/ ParseDependency
  \/ ReturnDependencies

SpecDeps == InitDeps /\ [][NextDeps]_vars

\* The number of rev, tag, branch an entry carries.
TargetsCarried(dep) ==
  Cardinality({k \in {"rev", "tag", "branch"} : contains(dep, k)})

\* The three shapes.
GitShape(dep) ==
  dep.is_table /\ contains(dep, "git") /\ TargetsCarried(dep) <= 1

PathShape(dep) == dep.is_table /\ contains(dep, "path")

SystemShape(dep) ==
  dep.is_table /\ dep.system = "true" /\ contains(dep, "version")

\* The entry read last was appended to the dependencies.
Accepted == depEntry # None /\ depResult = "parsing"

\* C20: an entry is accepted only when it is a table with `git` and at most
\* one of rev, tag, branch, or a table with `path`, or a table with
\* `system = true` and `version`; for every other entry the parsing of the
\* manifest returns an error.
C20_OnlyThreeShapes ==
  depEntry # None /\ depResult # "Ok" =>
    /\ Accepted => GitShape(depEntry) \/ PathShape(depEntry)
                     \/ SystemShape(depEntry)
    /\ ~(GitShape(depEntry) \/ PathShape(depEntry) \/ SystemShape(depEntry))
         => depResult = "Err"

\* What the code does keep to: an accepted entry is a table under a valid
\* name with `git`, or with `system = true` and a string `version` that is a
\* version requirement, or with a string `path`; a value that is no table, or
\* a table with none of git, system = true, path, is an error.
C20_AcceptedEntries ==
  depEntry # None /\ depResult # "Ok" =>
    /\ Accepted =>
         /\ depEntry.is_table /\ depEntry.validName
         /\ \/ contains(depEntry, "git")
            \/ depEntry.system = "true" /\ depEntry.version = "req"
            \/ depEntry.path = "string"
    /\ (~depEntry.is_table
        \/ (~contains(depEntry, "git") /\ depEntry.system \in {"absent", "false"}
            /\ ~contains(depEntry, "path")))
         => depResult = "Err"

----------------------------------------------------------------------------
(* Editions: src/src/Manifest.cc, Edition::tryFromString                    *)

\* The strings tried: the years and aliases, and some that are neither.
EditionStrings ==
  {"98", "03", "11", "14", "17", "20", "23", "26",
   "0x", "1y", "1z", "2a", "2b", "2c",
   "", "abc", "99", "21", "2C", "c++20"}

\* Edition::Year as a rank in the order of release.
YearRank ==
  [Cpp98 |-> 1, Cpp03 |-> 2, Cpp11 |-> 3, Cpp14 |-> 4, Cpp17 |-> 5,
   Cpp20 |-> 6, Cpp23 |-> 7, Cpp26 |-> 8]

Err(msg) == [ok |-> FALSE, what |-> msg]

\* Edition::tryFromString, lines 31-50
EditionTryFromString(str) ==
  IF str = "98" THEN [ok |-> TRUE, edition |-> "Cpp98", str |-> str]
  ELSE IF str = "03" THEN [ok |-> TRUE, edition |-> "Cpp03", str |-> str]
  ELSE IF str = "0x" \/ str = "11"
    THEN [ok |-> TRUE, edition |-> "Cpp11", str |-> str]
  ELSE IF str = "1y" \/ str = "14"
    THEN [ok |-> TRUE, edition |-> "Cpp14", str |-> str]
  ELSE IF str = "1z" \/ str = "17"
    THEN [ok |-> TRUE, edition |-> "Cpp17", str |-> str]
  ELSE IF str = "2a" \/ str = "20"
    THEN [ok |-> TRUE, edition |-> "Cpp20", str |-> str]
  ELSE IF str = "2b" \/ str = "23"
    THEN [ok |-> TRUE, edition |-> "Cpp23", str |-> str]
  ELSE IF str = "2c" THEN [ok |-> TRUE, edition |-> "Cpp26", str |-> str]
  ELSE Err("invalid edition")

InitEdition ==
  /\ edStrA \in EditionStrings
  /\ edStrB \in EditionStrings
  /\ edA = None
  /\ edB = None
  \* the other subsystems are idle
  /\ variables = <<>> /\ varDeps = <<>> /\ targets = <<>> /\ targetDeps = <<>>
  /\ phony = None /\ all = None /\ varDecl = <<>> /\ redefined = FALSE
  /\ defOrderV = <<>> /\ defOrderT = <<>> /\ nDefs = 0
  /\ mk = [status |-> "none"]
  /\ pc = "idle" /\ hasBinTarget = FALSE /\ hasLibTarget = FALSE
  /\ targetName = "none" /\ exitStatus = None /\ cmdLog = <<>>
  /\ finished = FALSE /\ buildResult = "none"
  /\ svPc = "idle" /\ svA = None /\ svB = None /\ svC = None
  /\ rqPc = "idle" /\ req = None /\ canon = None /\ canon2 = None
  /\ ver = None /\ sat = FALSE /\ csat = FALSE
  /\ envPc = "idle" /\ environ = <<>> /\ environment = <<>> /\ childEnv = <<>>
  /\ wPc = "idle" /\ piped = <<>> /\ pipe = <<>> /\ closedW = <<>>
  /\ exited = FALSE /\ written = <<>> /\ eof = <<>> /\ output = <<>>
  /\ readfds = {}
  /\ hardware_concurrency = 0 /\ controls = <<>> /\ lastSet = 0 /\ got = 0
  /\ now = 0 /\ makefileTime = 0 /\ manifestTime = 0 /\ srcTimes = <<>>
  /\ emitted = FALSE /\ upToDate = FALSE /\ regenerated = FALSE /\ found = <<>>
  /\ mmPc = "idle" /\ sourceFile = <<>> /\ headers = <<>> /\ mmOutput = <<>>
  /\ objTarget = <<>> /\ objTargetDeps = <<>> /\ compileTarget = <<>>
  /\ ruleText = <<>> /\ compdbEntry = None
  /\ objTargets = <<>> /\ testSource = None /\ testObjTargetDeps = <<>>
  /\ testTargetDeps = <<>>
  /\ ldFlags = None /\ seenLibs = <<>> /\ merges = 0
  /\ depsParsed = <<>> /\ depEntry = None /\ depResult = "idle"
  /\ pkgToml = None /\ package = None /\ nameChecked = None
  /\ manifests = {} /\ origCandDir = <<>> /\ candidateDir = <<>>
  /\ configPath = <<>> /\ fpPc = "idle"
  /\ profToml = None /\ profiles = None /\ theFlag = <<>> /\ flagChecked = None
  /\ runPc = "idle" /\ executed = FALSE /\ runStatus = None /\ runResult = "none"
  /\ fdFn = "none" /\ fdOwned = <<>> /\ fdChunks = <<>> /\ fdEOF = <<>>
  /\ fdReady = {} /\ closeCount = <<>> /\ fdPc = "idle"
  /\ csSource = None /\ csList = <<>> /\ stack = <<>> /\ csDeps = <<>>
  /\ pushes = <<>> /\ csPc = "idle"

\* Two strings are parsed, as in testEditionComparison.
ParseEditions ==
  /\ edA = None
  /\ edA' = EditionTryFromString(edStrA)
  /\ edB' = EditionTryFromString(edStrB)
  /\ UNCHANGED <<edStrA, edStrB>>
  /\ UNCHANGED othersED

NextEdition == ParseEditions

SpecEdition == InitEdition /\ [][NextEdition]_vars

\* The year a string stands for, by the spec's table of years and aliases.
YearOfString ==
  [s \in {"98", "03", "11", "14", "17", "20", "23", "26",
          "0x", "1y", "1z", "2a", "2b", "2c"} |->
     CASE s = "98" -> 1998 [] s = "03" -> 2003
       [] s \in {"11", "0x"} -> 2011 [] s \in {"14", "1y"} -> 2014
       [] s \in {"17", "1z"} -> 2017 [] s \in {"20", "2a"} -> 2020
       [] s \in {"23", "2b"} -> 2023 [] s \in {"26", "2c"} -> 2026]

\* A string is accepted iff it is among the given ones; the others get
\* `invalid edition`; two accepted strings give equal editions iff they stand
\* for the same year, and are ordered as their years.
EditionsAgree(strings) ==
  edA # None =>
    /\ edA.ok <=> edStrA \in strings
    /\ ~edA.ok => edA.what = "invalid edition"
    /\ edA.ok /\ edB.ok =>
         /\ edA.edition = edB.edition
              <=> YearOfString[edStrA] = YearOfString[edStrB]
         /\ YearRank[edA.edition] < YearRank[edB.edition]
              <=> YearOfString[edStrA] < YearOfString[edStrB]

\* C24: the years 98, 03, 11, 14, 17, 20, 23, 26 and the aliases 0x, 1y, 1z,
\* 2a, 2b, 2c are accepted, an alias and its year give equal editions,
\* editions are ordered by release, and every other string is rejected with
\* `invalid edition`.
C24_EditionStrings == EditionsAgree(DOMAIN YearOfString)

\* The same with the year 26 taken out of the accepted strings.
C24_EditionStringsWithout26 == EditionsAgree(DOMAIN YearOfString \ {"26"})

----------------------------------------------------------------------------
(* The [package] table: src/src/Manifest.cc, Package::tryFromToml and      *)
(* validatePackageName.  A name is a tuple of characters.                  *)

\* Bound: the length of a package name.
MaxNameLen == 3

\* The characters of names: two lowercase letters, an uppercase letter, a
\* digit, the dash and the underscore.
NameChars == {"d", "o", "A", "1", "-", "_"}

islower(c) == c \in {"d", "o"}
isdigit(c) == c \in {"1"}
isalpha(c) == c \in {"d", "o", "A"}
isalnum(c) == isalpha(c) \/ isdigit(c)

\* Keywords.def, as far as the names of the model go.
keywords == {<<"d", "o">>}

PackageNames == SeqsUpTo(NameChars, MaxNameLen)

\* validatePackageName, lines 462-483
validatePackageName(name) ==
  IF name = <<>> THEN Err("package name must not be empty")
  ELSE IF ~(Len(name) > 1)
    THEN Err("package name must be more than one character")
  ELSE IF \E i \in 1..Len(name) :
            ~islower(name[i]) /\ ~isdigit(name[i])
            /\ name[i] # "-" /\ name[i] # "_"
    THEN Err("package name must only contain lowercase letters, numbers, dashes, and underscores")
  ELSE IF ~isalpha(name[1])
    THEN Err("package name must start with a letter")
  ELSE IF ~isalnum(name[Len(name)])
    THEN Err("package name must end with a letter or digit")
  ELSE IF name \in keywords
    THEN Err("package name must not be a C++ keyword")
  ELSE [ok |-> TRUE]

\* Package::tryFromToml, lines 52-59: name, edition and version are looked
\* up in this order; the edition and the version are parsed.
PackageTryFromToml(val) ==
  IF ~val.hasName THEN Err("key name not found")
  ELSE IF ~val.hasEdition THEN Err("key edition not found")
  ELSE IF ~EditionTryFromString(val.edition).ok
    THEN EditionTryFromString(val.edition)
  ELSE IF val.version = "absent" THEN Err("key version not found")
  ELSE IF val.version = "invalid" THEN Err("invalid version")
  ELSE [ok |-> TRUE, name |-> val.name,
        edition |-> EditionTryFromString(val.edition).edition]

InitPackage ==
  /\ pkgToml \in {t \in [hasName : BOOLEAN, name : PackageNames,
                         hasEdition : BOOLEAN, edition : {"", "20", "2c", "zz"},
                         version : {"absent", "valid", "invalid"}] :
                      /\ ~t.hasName => t.name = <<>>
                      /\ t.hasEdition <=> t.edition # ""}
  /\ package = None
  /\ nameChecked = None
  \* the other subsystems are idle
  /\ variables = <<>> /\ varDeps = <<>> /\ targets = <<>> /\ targetDeps = <<>>
  /\ phony = None /\ all = None /\ varDecl = <<>> /\ redefined = FALSE
  /\ defOrderV = <<>> /\ defOrderT = <<>> /\ nDefs = 0
  /\ mk = [status |-> "none"]
  /\ pc = "idle" /\ hasBinTarget = FALSE /\ hasLibTarget = FALSE
  /\ targetName = "none" /\ exitStatus = None /\ cmdLog = <<>>
  /\ finished = FALSE /\ buildResult = "none"
  /\ svPc = "idle" /\ svA = None /\ svB = None /\ svC = None
  /\ rqPc = "idle" /\ req = None /\ canon = None /\ canon2 = None
  /\ ver = None /\ sat = FALSE /\ csat = FALSE
  /\ envPc = "idle" /\ environ = <<>> /\ environment = <<>> /\ childEnv = <<>>
  /\ wPc = "idle" /\ piped = <<>> /\ pipe = <<>> /\ closedW = <<>>
  /\ exited = FALSE /\ written = <<>> /\ eof = <<>> /\ output = <<>>
  /\ readfds = {}
  /\ hardware_concurrency = 0 /\ controls = <<>> /\ lastSet = 0 /\ got = 0
  /\ now = 0 /\ makefileTime = 0 /\ manifestTime = 0 /\ srcTimes = <<>>
  /\ emitted = FALSE /\ upToDate = FALSE /\ regenerated = FALSE /\ found = <<>>
  /\ mmPc = "idle" /\ sourceFile = <<>> /\ headers = <<>> /\ mmOutput = <<>>
  /\ objTarget = <<>> /\ objTargetDeps = <<>> /\ compileTarget = <<>>
  /\ ruleText = <<>> /\ compdbEntry = None
  /\ objTargets = <<>> /\ testSource = None /\ testObjTargetDeps = <<>>
  /\ testTargetDeps = <<>>
  /\ ldFlags = None /\ seenLibs = <<>> /\ merges = 0
  /\ depsParsed = <<>> /\ depEntry = None /\ depResult = "idle"
  /\ edStrA = "" /\ edStrB = "" /\ edA = None /\ edB = None
  /\ manifests = {} /\ origCandDir = <<>> /\ candidateDir = <<>>
  /\ configPath = <<>> /\ fpPc = "idle"
  /\ profToml = None /\ profiles = None /\ theFlag = <<>> /\ flagChecked = None
  /\ runPc = "idle" /\ executed = FALSE /\ runStatus = None /\ runResult = "none"
  /\ fdFn = "none" /\ fdOwned = <<>> /\ fdChunks = <<>> /\ fdEOF = <<>>
  /\ fdReady = {} /\ closeCount = <<>> /\ fdPc = "idle"
  /\ csSource = None /\ csList = <<>> /\ stack = <<>> /\ csDeps = <<>>
  /\ pushes = <<>> /\ csPc = "idle"

\* Manifest::tryFromToml, line 409
ParsePackage ==
  /\ package = None
  /\ package' = PackageTryFromToml(pkgToml)
  /\ UNCHANGED <<pkgToml, nameChecked>>
  /\ UNCHANGED othersPK

\* validatePackageName is called with the name (by a command that creates a
\* package; no caller is on the way of Manifest::tryParse).
ValidatePackageName ==
  /\ nameChecked = None
  /\ pkgToml.hasName
  /\ nameChecked' = validatePackageName(pkgToml.name)
  /\ UNCHANGED <<pkgToml, package>>
  /\ UNCHANGED othersPK

NextPackage ==
  \/ ParsePackage
  \/ ValidatePackageName

SpecPackage == InitPackage /\ [][NextPackage]_vars

\* What the spec asks of a package name.
WellFormedName(name) ==
  /\ Len(name) >= 2
  /\ isalpha(name[1])
  /\ isalnum(name[Len(name)])
  /\ \A i \in 1..Len(name) :
       islower(name[i]) \/ isdigit(name[i]) \/ name[i] \in {"-", "_"}
  /\ name \notin keywords

\* C21: the name of every package a successful parse returns has at least 2
\* characters, starts with a letter, ends with a letter or digit, holds
\* lowercase letters, digits, `-` and `_` only, and is no C++ keyword.
C21_ParsedNameIsValid ==
  package # None /\ package.ok => WellFormedName(package.name)

\* validatePackageName itself accepts the well-formed names and no others.
C21_ValidatorAcceptsWellFormed ==
  nameChecked # None => (nameChecked.ok <=> WellFormedName(pkgToml.name))

\* ==========================================================================
\* Manifest lookup: Manifest::findPath (src/src/Manifest.cc, lines 421-440)
\* ==========================================================================

\* A directory is the sequence of its components below the root directory;
\* <<>> is the root directory "/".
MaxDepth == 2

DirNames == {"a", "b"}

Dirs == UNION {[1..n -> DirNames] : n \in 0..MaxDepth}

\* fs::path::parent_path: the parent of "/" is "/" itself
parent_path(p) == IF p = <<>> THEN <<>> ELSE SubSeq(p, 1, Len(p) - 1)

\* fs::path::has_parent_path: parent_path() is not the empty string, which
\* holds for every absolute path
has_parent_path(p) == TRUE

\* fs::path::root_directory of an absolute path
root_directory(p) == <<>>

\* line 427: fs::exists(candidateDir / FILE_NAME)
exists(dir) == dir \in manifests

InitFindPath ==
  /\ manifests \in SUBSET Dirs
  /\ origCandDir \in Dirs
  /\ candidateDir = origCandDir
  /\ fpPc = "loop"
  /\ configPath = <<>>
  \* the other subsystems are idle
  /\ variables = <<>> /\ varDeps = <<>> /\ targets = <<>> /\ targetDeps = <<>>
  /\ phony = None /\ all = None /\ varDecl = <<>> /\ redefined = FALSE
  /\ defOrderV = <<>> /\ defOrderT = <<>> /\ nDefs = 0
  /\ mk = [status |-> "none"]
  /\ pc = "idle" /\ hasBinTarget = FALSE /\ hasLibTarget = FALSE
  /\ targetName = "none" /\ exitStatus = None /\ cmdLog = <<>>
  /\ finished = FALSE /\ buildResult = "none"
  /\ svPc = "idle" /\ svA = None /\ svB = None /\ svC = None
  /\ rqPc = "idle" /\ req = None /\ canon = None /\ canon2 = None
  /\ ver = None /\ sat = FALSE /\ csat = FALSE
  /\ envPc = "idle" /\ environ = <<>> /\ environment = <<>> /\ childEnv = <<>>
  /\ wPc = "idle" /\ piped = <<>> /\ pipe = <<>> /\ closedW = <<>>
  /\ exited = FALSE /\ written = <<>> /\ eof = <<>> /\ output = <<>>
  /\ readfds = {}
  /\ hardware_concurrency = 0 /\ controls = <<>> /\ lastSet = 0 /\ got = 0
  /\ now = 0 /\ makefileTime = 0 /\ manifestTime = 0 /\ srcTimes = <<>>
  /\ emitted = FALSE /\ upToDate = FALSE /\ regenerated = FALSE /\ found = <<>>
  /\ mmPc = "idle" /\ sourceFile = <<>> /\ headers = <<>> /\ mmOutput = <<>>
  /\ objTarget = <<>> /\ objTargetDeps = <<>> /\ compileTarget = <<>>
  /\ ruleText = <<>> /\ compdbEntry = None
  /\ objTargets = <<>> /\ testSource = None /\ testObjTargetDeps = <<>>
  /\ testTargetDeps = <<>>
  /\ ldFlags = None /\ seenLibs = <<>> /\ merges = 0
  /\ depsParsed = <<>> /\ depEntry = None /\ depResult = "idle"
  /\ edStrA = "" /\ edStrB = "" /\ edA = None /\ edB = None
  /\ pkgToml = None /\ package = None /\ nameChecked = None
  /\ profToml = None /\ profiles = None /\ theFlag = <<>> /\ flagChecked = None
  /\ runPc = "idle" /\ executed = FALSE /\ runStatus = None /\ runResult = "none"
  /\ fdFn = "none" /\ fdOwned = <<>> /\ fdChunks = <<>> /\ fdEOF = <<>>
  /\ fdReady = {} /\ closeCount = <<>> /\ fdPc = "idle"
  /\ csSource = None /\ csList = <<>> /\ stack = <<>> /\ csDeps = <<>>
  /\ pushes = <<>> /\ csPc = "idle"

\* lines 425-429: the manifest is in the candidate directory
FindPathReturn ==
  /\ fpPc = "loop"
  /\ exists(candidateDir)
  /\ configPath' = candidateDir
  /\ fpPc' = "returned"
  /\ UNCHANGED <<manifests, origCandDir, candidateDir>>
  /\ UNCHANGED othersFP

\* lines 431-434: move to the parent directory
FindPathAscend ==
  /\ fpPc = "loop"
  /\ ~exists(candidateDir)
  /\ LET parentPath == parent_path(candidateDir)
     IN /\ has_parent_path(candidateDir)
        /\ parentPath # root_directory(candidateDir)
        /\ candidateDir' = parentPath
  /\ UNCHANGED <<manifests, origCandDir, fpPc, configPath>>
  /\ UNCHANGED othersFP

\* lines 435-439: the parent is the root directory: break and Bail
FindPathBail ==
  /\ fpPc = "loop"
  /\ ~exists(candidateDir)
  /\ LET parentPath == parent_path(candidateDir)
     IN ~(/\ has_parent_path(candidateDir)
          /\ parentPath # root_directory(candidateDir))
  /\ fpPc' = "failed"
  /\ UNCHANGED <<manifests, origCandDir, candidateDir, configPath>>
  /\ UNCHANGED othersFP

NextFindPath == FindPathReturn \/ FindPathAscend \/ FindPathBail

SpecFindPath == InitFindPath /\ [][NextFindPath]_vars

\* d and all its ancestors, the root directory included
SelfAndAncestors(d) == {SubSeq(d, 1, n) : n \in 0..Len(d)}

\* the nearest of the directories in ds that holds a manifest
Nearest(ds) ==
  CHOOSE x \in ds \cap manifests :
    \A y \in ds \cap manifests : Len(y) <= Len(x)

\* C22: the lookup returns the manifest of the nearest directory, among d and
\* all its ancestors up to and including the root, that contains the manifest
\* file, and it fails if and only if none of those directories contains one.
C22_NearestUpToRoot ==
  LET ds == SelfAndAncestors(origCandDir)
  IN /\ fpPc = "returned" => /\ ds \cap manifests # {}
                             /\ configPath = Nearest(ds)
     /\ fpPc = "failed" => ds \cap manifests = {}
     /\ fpPc \in {"returned", "failed"} =>
          (fpPc = "failed" <=> ds \cap manifests = {})

\* What the loop does: the root directory is examined only when the lookup
\* starts in it.
C22_NearestBelowRoot ==
  LET ds == SelfAndAncestors(origCandDir) \ 
              (IF origCandDir = <<>> THEN {} ELSE {<<>>})
  IN /\ fpPc = "returned" => /\ ds \cap manifests # {}
                             /\ configPath = Nearest(ds)
     /\ fpPc = "failed" => ds \cap manifests = {}

\* ==========================================================================
\* Profiles: validateFlag .. parseProfiles (src/src/Manifest.cc, lines 68-247)
\* ==========================================================================

\* A flag is the sequence of its characters.  The keys opt-level, lto, debug
\* and compdb are left out of the manifests of the model.
MaxFlagLen == 3
MaxProfileFlags == 2

FlagChars == {"-", "A", "=", " ", "$"}

AllFlags == UNION {[1..n -> FlagChars] : n \in 0..MaxFlagLen}

GoodFlags == {<<"-", "A">>, <<"-", "=">>}

FlagLists == UNION {[1..n -> GoodFlags] : n \in 0..MaxProfileFlags}

FlagKinds == {"cxxflags", "ldflags"}

\* a key of the manifest that holds an array of strings, present or absent
AbsentKey == [has |-> FALSE, list |-> <<>>]

Present(list) == [has |-> TRUE, list |-> list]

\* toml::find_or and toml::find_or_default
find_or(entry, default) == IF entry.has THEN entry.list ELSE default

find_or_default(entry) == find_or(entry, <<>>)

\* line 72
allowed == {"-", "_", "=", "+", ":", ".", ","}

\* validateFlag with the space allowed any number of times
validateFlagAnySpaces(type, flag) ==
  IF ~(flag # <<>> /\ flag[1] = "-")
  THEN Err(<<type, "must start with -">>)
  ELSE LET fails(i) == /\ flag[i] # " "
                       /\ ~(isalnum(flag[i]) \/ flag[i] \in allowed)
       IN IF \E i \in DOMAIN flag : fails(i)
          THEN Err(<<type, "must only contain allowed characters">>)
          ELSE [ok |-> TRUE]

\* validateFlag, lines 68-90: the loop stops at the first character that
\* fails an Ensure
validateFlag(type, flag) ==
  IF ~(flag # <<>> /\ flag[1] = "-")
  THEN Err(<<type, "must start with -">>)
  ELSE LET twice(i) == /\ flag[i] = " "
                       /\ \E j \in 1..(i - 1) : flag[j] = " "
           other(i) == /\ flag[i] # " "
                       /\ ~(isalnum(flag[i]) \/ flag[i] \in allowed)
           fails(i) == twice(i) \/ other(i)
       IN IF \E i \in DOMAIN flag : fails(i)
          THEN LET firstBad == CHOOSE i \in DOMAIN flag :
                                 fails(i) /\ \A j \in 1..(i - 1) : ~fails(j)
               IN (IF twice(firstBad)
                   THEN Err(<<type, "must only contain a space once">>)
                   ELSE Err(<<type, "must only contain allowed characters">>))
          ELSE [ok |-> TRUE]

\* validateFlags, lines 92-99: the error of the first flag that fails
validateFlags(type, flags) ==
  IF \E i \in DOMAIN flags : ~validateFlag(type, flags[i]).ok
  THEN validateFlag(type, flags[CHOOSE i \in DOMAIN flags :
                                  /\ ~validateFlag(type, flags[i]).ok
                                  /\ \A j \in 1..(i - 1) :
                                       validateFlag(type, flags[j]).ok])
  ELSE [ok |-> TRUE, flags |-> flags]

\* two results of validateFlags made into a profile, the first error winning
MakeProfile(cxx, ld) ==
  IF ~cxx.ok THEN cxx
  ELSE IF ~ld.ok THEN ld
  ELSE [ok |-> TRUE, cxxflags |-> cxx.flags, ldflags |-> ld.flags]

\* parseBaseProfile, lines 117-134
parseBaseProfile(val) ==
  MakeProfile(validateFlags("cxxflags", find_or_default(val.base.cxxflags)),
              validateFlags("ldflags", find_or_default(val.base.ldflags)))

\* parseDevProfile, lines 136-159
parseDevProfile(val, baseProfile) ==
  MakeProfile(
    validateFlags("cxxflags", find_or(val.dev.cxxflags, baseProfile.cxxflags)),
    validateFlags("ldflags", find_or(val.dev.ldflags, baseProfile.ldflags)))

\* parseReleaseProfile, lines 161-184
parseReleaseProfile(val, baseProfile) ==
  MakeProfile(
    validateFlags("cxxflags",
                  find_or(val.release.cxxflags, baseProfile.cxxflags)),
    validateFlags("ldflags",
                  find_or(val.release.ldflags, baseProfile.ldflags)))

\* parseInheritMode, lines 191-199
parseInheritMode(mode) ==
  IF mode = "append" THEN [ok |-> TRUE, mode |-> "Append"]
  ELSE IF mode = "overwrite" THEN [ok |-> TRUE, mode |-> "Overwrite"]
  ELSE Err(<<"invalid inherit-mode", mode>>)

\* inheritFlags with the new flags put in front of the base flags
inheritFlagsInFront(inheritMode, baseFlags, newFlags) ==
  IF newFlags = <<>> THEN baseFlags
  ELSE IF inheritMode = "Append" THEN newFlags \o baseFlags
  ELSE newFlags

\* inheritFlags, lines 201-218
inheritFlags(inheritMode, baseFlags, newFlags) ==
  IF newFlags = <<>> THEN baseFlags
  ELSE IF inheritMode = "Append" THEN baseFlags \o newFlags
  ELSE newFlags

\* parseTestProfile, lines 221-247
parseTestProfile(val, devProfile) ==
  LET inheritMode == parseInheritMode(IF val.test.mode = ""
                                      THEN "append" ELSE val.test.mode)
      cxx == validateFlags("cxxflags", find_or_default(val.test.cxxflags))
      ld == validateFlags("ldflags", find_or_default(val.test.ldflags))
  IN IF ~inheritMode.ok THEN inheritMode
     ELSE IF ~cxx.ok THEN cxx
     ELSE IF ~ld.ok THEN ld
     ELSE [ok |-> TRUE,
           cxxflags |-> inheritFlags(inheritMode.mode, devProfile.cxxflags,
                                     cxx.flags),
           ldflags |-> inheritFlags(inheritMode.mode, devProfile.ldflags,
                                    ld.flags)]

\* parseProfiles, lines 249-260
parseProfiles(val) ==
  LET baseProfile == parseBaseProfile(val)
      devProfile == parseDevProfile(val, baseProfile)
      testProfile == parseTestProfile(val, devProfile)
      releaseProfile == parseReleaseProfile(val, baseProfile)
  IN IF ~baseProfile.ok THEN baseProfile
     ELSE IF ~devProfile.ok THEN devProfile
     ELSE IF ~testProfile.ok THEN testProfile
     ELSE IF ~releaseProfile.ok THEN releaseProfile
     ELSE [ok |-> TRUE, Dev |-> devProfile, Test |-> testProfile,
           Release |-> releaseProfile]

NoFlags == [cxxflags |-> AbsentKey, ldflags |-> AbsentKey]

\* Manifests whose flags all pass validateFlag: any lists for [profile.dev]
\* and [profile.test], any inherit-mode ("" when the key is absent).
InitProfiles ==
  /\ profToml \in
       {[base |-> [cxxflags |-> b, ldflags |-> AbsentKey],
         dev |-> [cxxflags |-> dc, ldflags |-> dl],
         test |-> [cxxflags |-> tc, ldflags |-> tl, mode |-> m],
         release |-> NoFlags] :
          b \in {AbsentKey, Present(<<<<"-", "=">>>>)},
          dc \in {AbsentKey} \cup {Present(l) : l \in FlagLists},
          dl \in {AbsentKey, Present(<<>>), Present(<<<<"-", "A">>>>)},
          tc \in {AbsentKey} \cup {Present(l) : l \in FlagLists},
          tl \in {AbsentKey, Present(<<>>), Present(<<<<"-", "=">>>>)},
          m \in {"", "append", "overwrite", "replace"}}
  /\ profiles = None
  /\ theFlag = <<>>
  /\ flagChecked = None
  \* the other subsystems are idle
  /\ variables = <<>> /\ varDeps = <<>> /\ targets = <<>> /\ targetDeps = <<>>
  /\ phony = None /\ all = None /\ varDecl = <<>> /\ redefined = FALSE
  /\ defOrderV = <<>> /\ defOrderT = <<>> /\ nDefs = 0
  /\ mk = [status |-> "none"]
  /\ pc = "idle" /\ hasBinTarget = FALSE /\ hasLibTarget = FALSE
  /\ targetName = "none" /\ exitStatus = None /\ cmdLog = <<>>
  /\ finished = FALSE /\ buildResult = "none"
  /\ svPc = "idle" /\ svA = None /\ svB = None /\ svC = None
  /\ rqPc = "idle" /\ req = None /\ canon = None /\ canon2 = None
  /\ ver = None /\ sat = FALSE /\ csat = FALSE
  /\ envPc = "idle" /\ environ = <<>> /\ environment = <<>> /\ childEnv = <<>>
  /\ wPc = "idle" /\ piped = <<>> /\ pipe = <<>> /\ closedW = <<>>
  /\ exited = FALSE /\ written = <<>> /\ eof = <<>> /\ output = <<>>
  /\ readfds = {}
  /\ hardware_concurrency = 0 /\ controls = <<>> /\ lastSet = 0 /\ got = 0
  /\ now = 0 /\ makefileTime = 0 /\ manifestTime = 0 /\ srcTimes = <<>>
  /\ emitted = FALSE /\ upToDate = FALSE /\ regenerated = FALSE /\ found = <<>>
  /\ mmPc = "idle" /\ sourceFile = <<>> /\ headers = <<>> /\ mmOutput = <<>>
  /\ objTarget = <<>> /\ objTargetDeps = <<>> /\ compileTarget = <<>>
  /\ ruleText = <<>> /\ compdbEntry = None
  /\ objTargets = <<>> /\ testSource = None /\ testObjTargetDeps = <<>>
  /\ testTargetDeps = <<>>
  /\ ldFlags = None /\ seenLibs = <<>> /\ merges = 0
  /\ depsParsed = <<>> /\ depEntry = None /\ depResult = "idle"
  /\ edStrA = "" /\ edStrB = "" /\ edA = None /\ edB = None
  /\ pkgToml = None /\ package = None /\ nameChecked = None
  /\ manifests = {} /\ origCandDir = <<>> /\ candidateDir = <<>>
  /\ configPath = <<>> /\ fpPc = "idle"
  /\ runPc = "idle" /\ executed = FALSE /\ runStatus = None /\ runResult = "none"
  /\ fdFn = "none" /\ fdOwned = <<>> /\ fdChunks = <<>> /\ fdEOF = <<>>
  /\ fdReady = {} /\ closeCount = <<>> /\ fdPc = "idle"
  /\ csSource = None /\ csList = <<>> /\ stack = <<>> /\ csDeps = <<>>
  /\ pushes = <<>> /\ csPc = "idle"

\* the tables [profile], [profile.dev], [profile.test], [profile.release]
ProfileKeys == {"base", "dev", "test", "release"}

\* Manifests with one flag under test, alone or after a flag that passes, in
\* one array of one table.
InitFlag ==
  /\ theFlag \in AllFlags
  /\ \E key \in ProfileKeys, kind \in FlagKinds,
        list \in {<<theFlag>>, <<<<"-", "A">>, theFlag>>} :
       profToml =
         [k \in ProfileKeys |->
            IF k = "test"
            THEN [cxxflags |-> IF k = key /\ kind = "cxxflags"
                               THEN Present(list) ELSE AbsentKey,
                  ldflags |-> IF k = key /\ kind = "ldflags"
                              THEN Present(list) ELSE AbsentKey,
                  mode |-> ""]
            ELSE [cxxflags |-> IF k = key /\ kind = "cxxflags"
                               THEN Present(list) ELSE AbsentKey,
                  ldflags |-> IF k = key /\ kind = "ldflags"
                              THEN Present(list) ELSE AbsentKey]]
  /\ profiles = None
  /\ flagChecked = None
  \* the other subsystems are idle
  /\ variables = <<>> /\ varDeps = <<>> /\ targets = <<>> /\ targetDeps = <<>>
  /\ phony = None /\ all = None /\ varDecl = <<>> /\ redefined = FALSE
  /\ defOrderV = <<>> /\ defOrderT = <<>> /\ nDefs = 0
  /\ mk = [status |-> "none"]
  /\ pc = "idle" /\ hasBinTarget = FALSE /\ hasLibTarget = FALSE
  /\ targetName = "none" /\ exitStatus = None /\ cmdLog = <<>>
  /\ finished = FALSE /\ buildResult = "none"
  /\ svPc = "idle" /\ svA = None /\ svB = None /\ svC = None
  /\ rqPc = "idle" /\ req = None /\ canon = None /\ canon2 = None
  /\ ver = None /\ sat = FALSE /\ csat = FALSE
  /\ envPc = "idle" /\ environ = <<>> /\ environment = <<>> /\ childEnv = <<>>
  /\ wPc = "idle" /\ piped = <<>> /\ pipe = <<>> /\ closedW = <<>>
  /\ exited = FALSE /\ written = <<>> /\ eof = <<>> /\ output = <<>>
  /\ readfds = {}
  /\ hardware_concurrency = 0 /\ controls = <<>> /\ lastSet = 0 /\ got = 0
  /\ now = 0 /\ makefileTime = 0 /\ manifestTime = 0 /\ srcTimes = <<>>
  /\ emitted = FALSE /\ upToDate = FALSE /\ regenerated = FALSE /\ found = <<>>
  /\ mmPc = "idle" /\ sourceFile = <<>> /\ headers = <<>> /\ mmOutput = <<>>
  /\ objTarget = <<>> /\ objTargetDeps = <<>> /\ compileTarget = <<>>
  /\ ruleText = <<>> /\ compdbEntry = None
  /\ objTargets = <<>> /\ testSource = None /\ testObjTargetDeps = <<>>
  /\ testTargetDeps = <<>>
  /\ ldFlags = None /\ seenLibs = <<>> /\ merges = 0
  /\ depsParsed = <<>> /\ depEntry = None /\ depResult = "idle"
  /\ edStrA = "" /\ edStrB = "" /\ edA = None /\ edB = None
  /\ pkgToml = None /\ package = None /\ nameChecked = None
  /\ manifests = {} /\ origCandDir = <<>> /\ candidateDir = <<>>
  /\ configPath = <<>> /\ fpPc = "idle"
  /\ runPc = "idle" /\ executed = FALSE /\ runStatus = None /\ runResult = "none"
  /\ fdFn = "none" /\ fdOwned = <<>> /\ fdChunks = <<>> /\ fdEOF = <<>>
  /\ fdReady = {} /\ closeCount = <<>> /\ fdPc = "idle"
  /\ csSource = None /\ csList = <<>> /\ stack = <<>> /\ csDeps = <<>>
  /\ pushes = <<>> /\ csPc = "idle"

\* Manifest::tryFromToml, line 411
ParseProfiles ==
  /\ profiles = None
  /\ profiles' = parseProfiles(profToml)
  /\ UNCHANGED <<profToml, theFlag, flagChecked>>
  /\ UNCHANGED othersPR

\* one call of validateFlag on the flag under test
ValidateFlag ==
  /\ flagChecked = None
  /\ \E type \in FlagKinds : flagChecked' = validateFlag(type, theFlag)
  /\ UNCHANGED <<profToml, profiles, theFlag>>
  /\ UNCHANGED othersPR

NextProfiles == ParseProfiles

SpecProfiles == InitProfiles /\ [][NextProfiles]_vars

NextFlag == ParseProfiles \/ ValidateFlag

SpecFlag == InitFlag /\ [][NextFlag]_vars

\* the Dev profile the Test profile inherits from, and Test's declared lists
DeclaredTest(kind) ==
  find_or_default(IF kind = "cxxflags" THEN profToml.test.cxxflags
                  ELSE profToml.test.ldflags)

FlagsOf(profile, kind) ==
  IF kind = "cxxflags" THEN profile.cxxflags ELSE profile.ldflags

Parsed == profiles # None /\ profiles.ok

\* C23: with inherit-mode `append` (the default) Test's flags are Dev's flag
\* list followed by Test's declared flag list; with `overwrite` they are
\* exactly Test's declared flag list.
C23_InheritFlags ==
  Parsed =>
    \A kind \in FlagKinds :
      FlagsOf(profiles.Test, kind) =
        IF profToml.test.mode = "overwrite"
        THEN DeclaredTest(kind)
        ELSE FlagsOf(profiles.Dev, kind) \o DeclaredTest(kind)

\* C23, amended: with `overwrite` Test's flags are Test's declared flag list
\* only when that list is not empty; a Test profile that declares no flags
\* keeps Dev's flags in both modes.
C23_InheritFlagsUnlessEmpty ==
  Parsed =>
    \A kind \in FlagKinds :
      FlagsOf(profiles.Test, kind) =
        IF profToml.test.mode = "overwrite" /\ DeclaredTest(kind) # <<>>
        THEN DeclaredTest(kind)
        ELSE FlagsOf(profiles.Dev, kind) \o DeclaredTest(kind)

C23_Witness ==
  /\ Parsed
  /\ profToml.test.mode = "overwrite"
  /\ profiles.Dev.cxxflags = <<<<"-", "=">>, <<"-", "A">>>>
  /\ DeclaredTest("cxxflags") = <<<<"-", "A">>, <<"-", "=">>>>
  /\ profiles.Test.cxxflags = DeclaredTest("cxxflags")
  /\ profiles.Dev.ldflags # <<>> /\ DeclaredTest("ldflags") = <<>>
  /\ profiles.Test.ldflags = profiles.Dev.ldflags

\* the flags the claim accepts
WellFormedFlag(f) ==
  /\ f # <<>>
  /\ f[1] = "-"
  /\ \A i \in 2..Len(f) : isalnum(f[i]) \/ f[i] \in allowed \/ f[i] = " "
  /\ Cardinality({i \in DOMAIN f : f[i] = " "}) <= 1

\* every flag of every array of the manifest
ManifestFlags ==
  UNION {SeqToSet(profToml[k].cxxflags.list) \cup
         SeqToSet(profToml[k].ldflags.list) : k \in ProfileKeys}

\* C25: a flag is accepted if and only if it starts with `-`, every other
\* character is alphanumeric or one of `-_=+:.,`, and it contains at most one
\* space; a manifest with a flag outside this set in any profile fails to
\* parse.
C25_FlagValidation ==
  /\ flagChecked # None => (flagChecked.ok <=> WellFormedFlag(theFlag))
  /\ profiles # None =>
       ((\E f \in ManifestFlags : ~WellFormedFlag(f)) => ~profiles.ok)

C25_Witness ==
  /\ flagChecked # None /\ ~flagChecked.ok
  /\ theFlag = <<"-", " ", " ">>
  /\ profToml.release.ldflags.list = <<<<"-", "A">>, theFlag>>
  /\ profiles # None /\ ~profiles.ok

\* ==========================================================================
\* More properties of the BuildConfig emitter (SpecBC)
\* ==========================================================================

\* the names of the records of one kind in the output, in order
NamesOfKind(kind) ==
  LET recs == SelectSeq(mk.out, LAMBDA r : r.kind = kind)
  IN [i \in DOMAIN recs |-> recs[i].name]

\* s lists every element of set exactly once
ListsOnce(s, set) ==
  /\ SeqToSet(s) = set
  /\ Len(s) = Cardinality(set)

\* by its latest definition, some variable / target depends on a name that
\* is not defined
UndefinedVarDep ==
  \E n \in DOMAIN variables : ~(SeqToSet(varDecl[n]) \subseteq DOMAIN variables)

UndefinedTargetDep ==
  \E n \in DOMAIN targets :
    ~(SeqToSet(targets[n].dependsOn) \subseteq DOMAIN targets)

SpecialTargets == {".PHONY", "all"}

\* C26: a variable or target that depends on an undefined name is accepted:
\* emitMakefile succeeds (when each name is defined once and the defined
\* names have no cycle), the emitted definitions are exactly the defined
\* names, each once, and the sort does not list the missing name.
C26_UndefinedDependencyAccepted ==
  /\ (Emitted /\ UndefinedVarDep /\ ~redefined /\ ~Cyclic(VarEdges))
       => VarsEmitted
  /\ (VarsEmitted /\ UndefinedTargetDep /\ ~redefined /\ ~Cyclic(TargetEdges))
       => mk.status = "ok"
  /\ VarsEmitted =>
       /\ ListsOnce(mk.sortedVars, DOMAIN variables)
       /\ NamesOfKind("var") = mk.sortedVars
  /\ mk.status = "ok" =>
       /\ ListsOnce(mk.sortedTargets, DOMAIN targets)
       /\ ListsOnce(SelectSeq(NamesOfKind("rule"),
                              LAMBDA n : n \notin SpecialTargets),
                    DOMAIN targets)

\* Variable c depends on the variable a and on b, which is not defined, and
\* target a depends on the undefined target b.
C26_Witness ==
  /\ mk.status = "ok"
  /\ DOMAIN variables = {"a", "c"}
  /\ varDecl["c"] = <<"a", "b">>
  /\ mk.sortedVars = <<"a", "c">>
  /\ DOMAIN targets = {"a"}
  /\ targets["a"].dependsOn = <<"b">>
  /\ NamesOfKind("rule") = <<"a">>

\* C27: after any sequence of definitions, redefinitions with other
\* dependencies included, emitMakefile succeeds whenever the latest
\* definitions are acyclic, orders the names by the latest dependencies, and
\* emits each defined name once.
C27_LatestDefinitionsOnly ==
  /\ (Emitted /\ ~Cyclic(VarEdges)) => VarsEmitted
  /\ (VarsEmitted /\ ~Cyclic(TargetEdges)) => mk.status = "ok"
  /\ VarsEmitted =>
       /\ \A e \in VarEdges : Before(mk.sortedVars, e[2], e[1])
       /\ ListsOnce(mk.sortedVars, DOMAIN variables)
  /\ mk.status = "ok" =>
       /\ \A e \in TargetEdges : Before(mk.sortedTargets, e[2], e[1])
       /\ ListsOnce(mk.sortedTargets, DOMAIN targets)

\* What holds with redefinitions: when emitMakefile succeeds, the order
\* respects the latest dependencies and each defined name is emitted once.
C27_WhenEmitted ==
  /\ VarsEmitted =>
       /\ \A e \in VarEdges : Before(mk.sortedVars, e[2], e[1])
       /\ ListsOnce(mk.sortedVars, DOMAIN variables)
  /\ mk.status = "ok" =>
       /\ \A e \in TargetEdges : Before(mk.sortedTargets, e[2], e[1])
       /\ ListsOnce(mk.sortedTargets, DOMAIN targets)

\* ==========================================================================
\* The run command: runMain (src/src/Cmd/Run.cc, lines 82-96)
\* ==========================================================================

\* runMain from its call of buildImpl on: the steps of buildImpl are the
\* actions of the build driver above.
InitRun ==
  /\ pc = "start"
  /\ hasBinTarget = FALSE
  /\ hasLibTarget = FALSE
  /\ targetName = "none"
  /\ exitStatus = None
  /\ cmdLog = <<>>
  /\ finished = FALSE
  /\ buildResult = "none"
  /\ runPc = "build"
  /\ executed = FALSE
  /\ runStatus = None
  /\ runResult = "none"
  \* the other subsystems are idle
  /\ variables = <<>> /\ varDeps = <<>> /\ targets = <<>> /\ targetDeps = <<>>
  /\ phony = None /\ all = None /\ varDecl = <<>> /\ redefined = FALSE
  /\ defOrderV = <<>> /\ defOrderT = <<>> /\ nDefs = 0
  /\ mk = [status |-> "none"]
  /\ svPc = "idle" /\ svA = None /\ svB = None /\ svC = None
  /\ rqPc = "idle" /\ req = None /\ canon = None /\ canon2 = None
  /\ ver = None /\ sat = FALSE /\ csat = FALSE
  /\ envPc = "idle" /\ environ = <<>> /\ environment = <<>> /\ childEnv = <<>>
  /\ wPc = "idle" /\ piped = <<>> /\ pipe = <<>> /\ closedW = <<>>
  /\ exited = FALSE /\ written = <<>> /\ eof = <<>> /\ output = <<>>
  /\ readfds = {}
  /\ hardware_concurrency = 0 /\ controls = <<>> /\ lastSet = 0 /\ got = 0
  /\ now = 0 /\ makefileTime = 0 /\ manifestTime = 0 /\ srcTimes = <<>>
  /\ emitted = FALSE /\ upToDate = FALSE /\ regenerated = FALSE /\ found = <<>>
  /\ mmPc = "idle" /\ sourceFile = <<>> /\ headers = <<>> /\ mmOutput = <<>>
  /\ objTarget = <<>> /\ objTargetDeps = <<>> /\ compileTarget = <<>>
  /\ ruleText = <<>> /\ compdbEntry = None
  /\ objTargets = <<>> /\ testSource = None /\ testObjTargetDeps = <<>>
  /\ testTargetDeps = <<>>
  /\ ldFlags = None /\ seenLibs = <<>> /\ merges = 0
  /\ depsParsed = <<>> /\ depEntry = None /\ depResult = "idle"
  /\ edStrA = "" /\ edStrB = "" /\ edA = None /\ edB = None
  /\ pkgToml = None /\ package = None /\ nameChecked = None
  /\ manifests = {} /\ origCandDir = <<>> /\ candidateDir = <<>>
  /\ configPath = <<>> /\ fpPc = "idle"
  /\ profToml = None /\ profiles = None /\ theFlag = <<>> /\ flagChecked = None
  /\ fdFn = "none" /\ fdOwned = <<>> /\ fdChunks = <<>> /\ fdEOF = <<>>
  /\ fdReady = {} /\ closeCount = <<>> /\ fdPc = "idle"
  /\ csSource = None /\ csList = <<>> /\ stack = <<>> /\ csDeps = <<>>
  /\ pushes = <<>> /\ csPc = "idle"

\* line 84: Try(buildImpl(manifest, outDir, isDebug)) with buildImpl's Err
RunBuildErr ==
  /\ runPc = "build"
  /\ pc = "done"
  /\ buildResult = "Err"
  /\ runResult' = "Err"
  /\ runPc' = "done"
  /\ UNCHANGED <<executed, runStatus>>
  /\ UNCHANGED othersRN

\* lines 84-96: buildImpl returned Ok; the binary is run with execCmd and
\* its exit status decides the result
RunExecCmd ==
  /\ runPc = "build"
  /\ pc = "done"
  /\ buildResult = "Ok"
  /\ \E r \in ExecResults :
       /\ runStatus' = r
       /\ executed' = (r # SpawnError)
       /\ runResult' = IF r # SpawnError /\ success(r) THEN "Ok" ELSE "Err"
  /\ runPc' = "done"
  /\ UNCHANGED othersRN

NextRun ==
  \/ BuildEmitMakefile
  \/ BuildBinTarget
  \/ BuildLibTarget
  \/ ExecCheckUpToDate
  \/ ExecMake
  \/ BuildFinish
  \/ RunBuildErr
  \/ RunExecCmd

SpecRun == InitRun /\ [][NextRun]_vars

\* C28: run executes the binary only after the build has succeeded: if the
\* make invocation of the build exits nonzero, the program is never executed
\* and run fails.
C28_RunOnlyAfterBuildSucceeded ==
  MakeFailed =>
    /\ ~executed
    /\ runPc = "done" => runResult = "Err"

\* What runMain does keep: the binary is executed only after buildImpl has
\* returned Ok, and an Err of buildImpl is the result of run.
C28_RunOnlyAfterBuildReturned ==
  /\ executed => (pc = "done" /\ buildResult = "Ok")
  /\ (runPc = "done" /\ buildResult = "Err") => (~executed /\ runResult = "Err")

\* ==========================================================================
\* The pipe descriptors of a Child: Child::wait and Child::waitWithOutput
\* (src/src/Command.cc, lines 77-183)
\* ==========================================================================

\* The largest number of reads that return data before a stream is at its
\* end.
MaxChunks == 2

\* `if (stdOutFd != -1) close(stdOutFd); if (stdErrFd != -1) close(stdErrFd);`
\* (lines 81-86, 90-95, 126-131, 140-145, 160-165): the members are const, so
\* a descriptor closed earlier is still != -1
closeBoth(counts, owned) ==
  [st \in Streams |-> IF owned[st] THEN counts[st] + 1 ELSE counts[st]]

\* `close(stdOutFd)` (line 149) / `close(stdErrFd)` (line 169)
closeOne(counts, st) == [counts EXCEPT ![st] = @ + 1]

\* A Child with any of the two pipes, on which wait() or waitWithOutput()
\* is called once.
InitChild ==
  /\ fdFn \in {"wait", "waitWithOutput"}
  /\ fdOwned \in [Streams -> BOOLEAN]
  /\ fdChunks \in [Streams -> 0..MaxChunks]
  /\ fdEOF = [st \in Streams |-> FALSE]
  /\ fdReady = {}
  /\ closeCount = [st \in Streams |-> 0]
  /\ fdPc = "call"
  \* the other subsystems are idle
  /\ variables = <<>> /\ varDeps = <<>> /\ targets = <<>> /\ targetDeps = <<>>
  /\ phony = None /\ all = None /\ varDecl = <<>> /\ redefined = FALSE
  /\ defOrderV = <<>> /\ defOrderT = <<>> /\ nDefs = 0
  /\ mk = [status |-> "none"]
  /\ pc = "idle" /\ hasBinTarget = FALSE /\ hasLibTarget = FALSE
  /\ targetName = "none" /\ exitStatus = None /\ cmdLog = <<>>
  /\ finished = FALSE /\ buildResult = "none"
  /\ svPc = "idle" /\ svA = None /\ svB = None /\ svC = None
  /\ rqPc = "idle" /\ req = None /\ canon = None /\ canon2 = None
  /\ ver = None /\ sat = FALSE /\ csat = FALSE
  /\ envPc = "idle" /\ environ = <<>> /\ environment = <<>> /\ childEnv = <<>>
  /\ wPc = "idle" /\ piped = <<>> /\ pipe = <<>> /\ closedW = <<>>
  /\ exited = FALSE /\ written = <<>> /\ eof = <<>> /\ output = <<>>
  /\ readfds = {}
  /\ hardware_concurrency = 0 /\ controls = <<>> /\ lastSet = 0 /\ got = 0
  /\ now = 0 /\ makefileTime = 0 /\ manifestTime = 0 /\ srcTimes = <<>>
  /\ emitted = FALSE /\ upToDate = FALSE /\ regenerated = FALSE /\ found = <<>>
  /\ mmPc = "idle" /\ sourceFile = <<>> /\ headers = <<>> /\ mmOutput = <<>>
  /\ objTarget = <<>> /\ objTargetDeps = <<>> /\ compileTarget = <<>>
  /\ ruleText = <<>> /\ compdbEntry = None
  /\ objTargets = <<>> /\ testSource = None /\ testObjTargetDeps = <<>>
  /\ testTargetDeps = <<>>
  /\ ldFlags = None /\ seenLibs = <<>> /\ merges = 0
  /\ depsParsed = <<>> /\ depEntry = None /\ depResult = "idle"
  /\ edStrA = "" /\ edStrB = "" /\ edA = None /\ edB = None
  /\ pkgToml = None /\ package = None /\ nameChecked = None
  /\ manifests = {} /\ origCandDir = <<>> /\ candidateDir = <<>>
  /\ configPath = <<>> /\ fpPc = "idle"
  /\ profToml = None /\ profiles = None /\ theFlag = <<>> /\ flagChecked = None
  /\ runPc = "idle" /\ executed = FALSE /\ runStatus = None /\ runResult = "none"
  /\ csSource = None /\ csList = <<>> /\ stack = <<>> /\ csDeps = <<>>
  /\ pushes = <<>> /\ csPc = "idle"

\* Child::wait, lines 77-98: waitpid fails or not, and both descriptors are
\* closed on either path
ChildWait ==
  /\ fdPc = "call" /\ fdFn = "wait"
  /\ closeCount' = closeBoth(closeCount, fdOwned)
  /\ \E waitpidFails \in BOOLEAN :
       fdPc' = IF waitpidFails THEN "failed" ELSE "returned"
  /\ UNCHANGED <<fdFn, fdOwned, fdChunks, fdEOF, fdReady>>
  /\ UNCHANGED othersFD

\* waitWithOutput, lines 112-113: stdOutEOF = (stdOutFd == -1), ...
WaitWithOutputEnter ==
  /\ fdPc = "call" /\ fdFn = "waitWithOutput"
  /\ fdEOF' = [st \in Streams |-> ~fdOwned[st]]
  /\ fdPc' = "select"
  /\ UNCHANGED <<fdFn, fdOwned, fdChunks, fdReady, closeCount>>
  /\ UNCHANGED othersFD

\* lines 115-133: the loop test, FD_SET and select(); a failing select()
\* closes both descriptors and bails
WaitWithOutputSelect ==
  /\ fdPc = "select"
  /\ IF \A st \in Streams : fdEOF[st]
        THEN fdPc' = "waitpid" /\ UNCHANGED <<fdReady, closeCount>>
        ELSE \/ /\ closeCount' = closeBoth(closeCount, fdOwned)
                /\ fdPc' = "failed"
                /\ UNCHANGED fdReady
             \/ /\ \E ready \in SUBSET {st \in Streams : ~fdEOF[st]} :
                     ready # {} /\ fdReady' = ready
                /\ fdPc' = "readOut"
                /\ UNCHANGED closeCount
  /\ UNCHANGED <<fdFn, fdOwned, fdChunks, fdEOF>>
  /\ UNCHANGED othersFD

\* lines 136-153 (st = "out") and 156-173 (st = "err"): read() fails, is at
\* the end of the stream, or returns data
readStream(st, nextPc) ==
  IF ~fdEOF[st] /\ st \in fdReady
  THEN \/ /\ closeCount' = closeBoth(closeCount, fdOwned)
          /\ fdPc' = "failed"
          /\ UNCHANGED <<fdEOF, fdChunks>>
       \/ /\ fdChunks[st] = 0
          /\ fdEOF' = [fdEOF EXCEPT ![st] = TRUE]
          /\ closeCount' = closeOne(closeCount, st)
          /\ fdPc' = nextPc
          /\ UNCHANGED fdChunks
       \/ /\ fdChunks[st] > 0
          /\ fdChunks' = [fdChunks EXCEPT ![st] = @ - 1]
          /\ fdPc' = nextPc
          /\ UNCHANGED <<fdEOF, closeCount>>
  ELSE /\ fdPc' = nextPc
       /\ UNCHANGED <<fdEOF, fdChunks, closeCount>>

WaitWithOutputReadStdOut ==
  /\ fdPc = "readOut"
  /\ readStream("out", "readErr")
  /\ UNCHANGED <<fdFn, fdOwned, fdReady>>
  /\ UNCHANGED othersFD

WaitWithOutputReadStdErr ==
  /\ fdPc = "readErr"
  /\ readStream("err", "select")
  /\ UNCHANGED <<fdFn, fdOwned, fdReady>>
  /\ UNCHANGED othersFD

\* lines 176-182: waitpid() after the loop; its failure closes nothing
WaitWithOutputWaitpid ==
  /\ fdPc = "waitpid"
  /\ \E waitpidFails \in BOOLEAN :
       fdPc' = IF waitpidFails THEN "failed" ELSE "returned"
  /\ UNCHANGED <<fdFn, fdOwned, fdChunks, fdEOF, fdReady, closeCount>>
  /\ UNCHANGED othersFD

NextChild ==
  \/ ChildWait
  \/ WaitWithOutputEnter
  \/ WaitWithOutputSelect
  \/ WaitWithOutputReadStdOut
  \/ WaitWithOutputReadStdErr
  \/ WaitWithOutputWaitpid

SpecChild == InitChild /\ [][NextChild]_vars

ChildDone == fdPc \in {"returned", "failed"}

\* C29: on every path through Child::wait and Child::waitWithOutput each pipe
\* descriptor the Child owns is closed exactly once: never twice, and never
\* left open when the call is over.
C29_ClosedExactlyOnce ==
  \A st \in Streams :
    /\ closeCount[st] <= 1
    /\ (ChildDone /\ fdOwned[st]) => closeCount[st] = 1

\* What holds: no owned descriptor is left open, a descriptor that is not
\* owned is never closed, and Child::wait and the paths of waitWithOutput
\* without a failing select() or read() close each owned descriptor once.
C29_NeverLeftOpen ==
  \A st \in Streams :
    /\ (ChildDone /\ fdOwned[st]) => closeCount[st] >= 1
    /\ ~fdOwned[st] => closeCount[st] = 0
    /\ (fdFn = "wait" \/ fdPc \in {"waitpid", "returned"}) => closeCount[st] <= 1

\* ==========================================================================
\* collectBinDepObjs step by step (src/src/BuildConfig.cc, lines 390-437)
\* ==========================================================================

\* The recursion of collectBinDepObjs as a stack of loops: a frame is the
\* objTargetDeps of one call and the position of its for loop.  MaxStack is
\* the largest number of frames.
MaxStack == 5

\* `deps.contains(headerObjTarget)` never holding
depsContainNever(deps, headerObjTarget) == FALSE

\* `deps.contains(headerObjTarget)`, line 419
depsContain(deps, headerObjTarget) == headerObjTarget \in SeqToSet(deps)

\* The state when the test pass calls collectBinDepObjs (lines 590-592):
\* the source pass has defined the objects of some units, each with the
\* headers the compiler printed, and the test object of one of them is
\* already in deps.
InitCollectSteps ==
  /\ \E defined \in SUBSET Units :
       \E hs \in [defined -> HeaderLists] :
         /\ objTargets =
              [o \in {BuildObj(u) : u \in defined} |->
                 LET u == [dir |-> o.dir, stem |-> o.stem]
                 IN <<SourceOf(u)>> \o hs[u] \o OrderOnly("poac.d")]
         /\ \E u \in defined, l \in HeaderLists :
              /\ csSource = SourceOf(u)
              /\ csList = <<SourceOf(u)>> \o l \o OrderOnly("tests")
              /\ stack = <<[list |-> <<SourceOf(u)>> \o l \o OrderOnly("tests"),
                            i |-> 1]>>
              /\ csDeps = <<TestObj(SourceOf(u))>>
  /\ pushes = <<>>
  /\ csPc = "collect"
  /\ testSource = None
  /\ testObjTargetDeps = <<>>
  /\ testTargetDeps = <<>>
  \* the other subsystems are idle
  /\ variables = <<>> /\ varDeps = <<>> /\ targets = <<>> /\ targetDeps = <<>>
  /\ phony = None /\ all = None /\ varDecl = <<>> /\ redefined = FALSE
  /\ defOrderV = <<>> /\ defOrderT = <<>> /\ nDefs = 0
  /\ mk = [status |-> "none"]
  /\ pc = "idle" /\ hasBinTarget = FALSE /\ hasLibTarget = FALSE
  /\ targetName = "none" /\ exitStatus = None /\ cmdLog = <<>>
  /\ finished = FALSE /\ buildResult = "none"
  /\ svPc = "idle" /\ svA = None /\ svB = None /\ svC = None
  /\ rqPc = "idle" /\ req = None /\ canon = None /\ canon2 = None
  /\ ver = None /\ sat = FALSE /\ csat = FALSE
  /\ envPc = "idle" /\ environ = <<>> /\ environment = <<>> /\ childEnv = <<>>
  /\ wPc = "idle" /\ piped = <<>> /\ pipe = <<>> /\ closedW = <<>>
  /\ exited = FALSE /\ written = <<>> /\ eof = <<>> /\ output = <<>>
  /\ readfds = {}
  /\ hardware_concurrency = 0 /\ controls = <<>> /\ lastSet = 0 /\ got = 0
  /\ now = 0 /\ makefileTime = 0 /\ manifestTime = 0 /\ srcTimes = <<>>
  /\ emitted = FALSE /\ upToDate = FALSE /\ regenerated = FALSE /\ found = <<>>
  /\ mmPc = "idle" /\ sourceFile = <<>> /\ headers = <<>> /\ mmOutput = <<>>
  /\ objTarget = <<>> /\ objTargetDeps = <<>> /\ compileTarget = <<>>
  /\ ruleText = <<>> /\ compdbEntry = None
  /\ ldFlags = None /\ seenLibs = <<>> /\ merges = 0
  /\ depsParsed = <<>> /\ depEntry = None /\ depResult = "idle"
  /\ edStrA = "" /\ edStrB = "" /\ edA = None /\ edB = None
  /\ pkgToml = None /\ package = None /\ nameChecked = None
  /\ manifests = {} /\ origCandDir = <<>> /\ candidateDir = <<>>
  /\ configPath = <<>> /\ fpPc = "idle"
  /\ profToml = None /\ profiles = None /\ theFlag = <<>> /\ flagChecked = None
  /\ runPc = "idle" /\ executed = FALSE /\ runStatus = None /\ runResult = "none"
  /\ fdFn = "none" /\ fdOwned = <<>> /\ fdChunks = <<>> /\ fdEOF = <<>>
  /\ fdReady = {} /\ closeCount = <<>> /\ fdPc = "idle"

TopFrame == stack[Len(stack)]

\* the top frame with its loop moved to the next element
Advance == [stack EXCEPT ![Len(stack)].i = @ + 1]

\* lines 397-434: one iteration of the for loop of the innermost call; the
\* last branch adds the object and enters the recursive call
CollectIterate ==
  /\ csPc = "collect"
  /\ stack # <<>>
  /\ TopFrame.i <= Len(TopFrame.list)
  /\ LET headerPath == TopFrame.list[TopFrame.i]
         headerObjTarget == BuildObj(headerPath)
     IN IF \/ sameStem(csSource, headerPath)
           \/ headerPath.ext \notin HEADER_FILE_EXTS
           \/ depsContain(csDeps, headerObjTarget)
           \/ headerObjTarget \notin buildObjTargets
        THEN /\ stack' = Advance
             /\ UNCHANGED <<csDeps, pushes>>
        ELSE /\ Len(stack) < MaxStack
             /\ csDeps' = pushBack(csDeps, headerObjTarget)
             /\ pushes' = Append(pushes, headerObjTarget)
             /\ stack' = Append(Advance, [list |-> objTargets[headerObjTarget],
                                          i |-> 1])
  /\ UNCHANGED <<csSource, csList, csPc>>
  /\ UNCHANGED othersCS

\* line 397 with the loop at its end: the call returns to its caller
CollectReturn ==
  /\ csPc = "collect"
  /\ stack # <<>>
  /\ TopFrame.i > Len(TopFrame.list)
  /\ stack' = SubSeq(stack, 1, Len(stack) - 1)
  /\ csPc' = IF Len(stack) = 1 THEN "done" ELSE "collect"
  /\ UNCHANGED <<csSource, csList, csDeps, pushes>>
  /\ UNCHANGED othersCS

NextCollectSteps == CollectIterate \/ CollectReturn

SpecCollectSteps == InitCollectSteps /\ [][NextCollectSteps]_vars

\* The calls run in one thread that nothing blocks: a step that can be
\* taken is taken.
FairSpecCollectSteps == SpecCollectSteps /\ WF_vars(NextCollectSteps)

\* C30: collectBinDepObjs terminates for every header-dependency graph,
\* graphs in which headers include each other cyclically included, and adds
\* each candidate object to the dependency set at most once.
C30_CollectTerminates ==
  /\ [](\A o \in buildObjTargets : Count(pushes, o) <= 1)
  /\ [](Len(stack) < MaxStack)
  /\ [](csPc = "done" =>
          csDeps = collectBinDepObjs(<<TestObj(csSource)>>, csList, 1, csSource))
  /\ (csPc = "collect") ~> (csPc = "done")

\* The test of ./b includes a.h; the objects of ./a and u/a include each
\* other's header, and both were added once.
C30_Witness ==
  /\ csPc = "done"
  /\ csSource = [dir |-> ".", stem |-> "b", ext |-> ".cc"]
  /\ buildObjTargets = {BuildObj(u) : u \in Units}
  /\ HeaderOf([dir |-> "u", stem |-> "a"])
       \in SeqToSet(objTargets[BuildObj([dir |-> ".", stem |-> "a"])])
  /\ HeaderOf([dir |-> ".", stem |-> "a"])
       \in SeqToSet(objTargets[BuildObj([dir |-> "u", stem |-> "a"])])
  /\ pushes = <<BuildObj([dir |-> ".", stem |-> "a"]),
                BuildObj([dir |-> "u", stem |-> "a"])>>
  /\ csDeps = <<TestObj(csSource)>> \o pushes

====
